---- MODULE Spec2Model ----
(***************************************************************************)
(* Verification model of the debate backend: the Conversation aggregate,   *)
(* the Message entity, the DebateOrchestrator's persona resolution and the *)
(* Start / Continue use cases over the in-memory repository.               *)
(*                                                                         *)
(* The specifications share the operators below:                           *)
(*   Spec     one Conversation driven by direct calls of add_user_message, *)
(*            add_bot_message and get_recent_messages;                     *)
(*   SpecOrch the same with generate_bot_response;                         *)
(*   SpecUC   Start / Continue calls running as tasks over the repository; *)
(*   SpecSeq  Start / Continue calls made one after the other;             *)
(*   SpecVal  the request validators; SpecRepo the repository operations;  *)
(*   SpecId   ConversationId.generate and from_string;                     *)
(*   SpecStrat the generate_response of the three persona strategies;      *)
(*   SpecFull SpecUC started from a stored conversation at its limit;      *)
(*   SpecStore the MemoryConversationStore operations under its lock, and  *)
(*            SpecStoreFair the same with fair scheduling of the tasks.    *)
(***************************************************************************)
EXTENDS Integers, Sequences, FiniteSets, TLC

(***************************************************************************)
(* Bounds of the model.                                                    *)
(***************************************************************************)
\* largest max_history a Conversation is constructed with
MaxK == 2
\* number of successful appends followed on one Conversation
MaxAppends == 5
\* number of successful appends followed between orchestrator calls
MaxOrchAppends == 2
\* number of tasks running use-case calls concurrently
NumTasks == 2
\* number of use-case calls (Start or Continue) issued in a behaviour
MaxRequests == 3
\* number of repository calls that fail in a behaviour
MaxFaults == 1
\* number of use-case calls made one after the other on one conversation
MaxSeqCalls == 6
\* largest limit get_recent_messages is called with
MaxLimit == 5
\* number of conversation ids generated
MaxIds == 6
\* number of exchanges held by the conversation stored before the calls
StoredExchanges == 4

(***************************************************************************)
(* Text.  A string is a sequence of tokens [w, n]: a word w taking n       *)
(* characters.  The word " " is a run of n whitespace characters, the word *)
(* "x" is n characters of text that contain no keyword.                    *)
(***************************************************************************)
None == "<None>"

Tok(w, n) == [w |-> w, n |-> n]

SP(n) == Tok(" ", n)

RECURSIVE TextLen(_)
TextLen(s) == IF s = <<>> THEN 0 ELSE Head(s).n + TextLen(Tail(s))

IsSpace(t) == t.w = " "

RECURSIVE LStrip(_)
LStrip(s) == IF s # <<>> /\ IsSpace(Head(s)) THEN LStrip(Tail(s)) ELSE s

RECURSIVE RStrip(_)
RStrip(s) ==
  IF s # <<>> /\ IsSpace(s[Len(s)]) THEN RStrip(SubSeq(s, 1, Len(s) - 1)) ELSE s

\* str.strip()
Strip(s) == RStrip(LStrip(s))

LowerWord(w) ==
  CASE w = "Vaccine" -> "vaccine"
    [] w = "Climate" -> "climate"
    [] w = "[USER]:" -> "[user]:"
    [] w = "[BOT]:" -> "[bot]:"
    [] w = "I" -> "i"
    [] w = "AI" -> "ai"
    [] OTHER -> w

\* str.lower()
Lower(s) == [i \in 1..Len(s) |-> Tok(LowerWord(s[i].w), s[i].n)]

\* s[:n]; a word cut in the middle leaves n characters without a keyword
RECURSIVE Truncate(_, _)
Truncate(s, n) ==
  IF s = <<>> \/ n <= 0 THEN <<>>
  ELSE IF Head(s).n <= n THEN <<Head(s)>> \o Truncate(Tail(s), n - Head(s).n)
  ELSE <<Tok(IF IsSpace(Head(s)) THEN " " ELSE "x", n)>>

\* kw in s  (Python's case-sensitive substring test; every keyword of the
\* program is a single word, so it occurs in s exactly when it is a token)
Contains(s, kw) == \E i \in 1..Len(s) : s[i].w = kw

ContainsAny(s, kws) == \E kw \in kws : Contains(s, kw)

(***************************************************************************)
(* Message entity.                                                         *)
(***************************************************************************)
MaxContentLen == 2000

\* the shortest trimmed message the use cases accept
MinMessageLen == 5

USER == "user"
BOT == "bot"

\* Message.__post_init__ raises ValueError on this content
MessageInvalid(content) ==
  \/ content = <<>>
  \/ Strip(content) = <<>>
  \/ TextLen(Strip(content)) > MaxContentLen

\* Message(role, content, timestamp) after __post_init__
NewMessage(role, content, timestamp) ==
  [role |-> role, content |-> Strip(content), timestamp |-> timestamp]

\* Message.__str__
MessageStr(m) ==
  <<IF m.role = USER THEN Tok("[USER]:", 7) ELSE Tok("[BOT]:", 6), SP(1)>>
    \o Truncate(m.content, 50) \o <<Tok("...", 3)>>

\* Message.to_dict
MessageToDict(m) == [role |-> m.role, message |-> m.content]

(***************************************************************************)
(* Conversation aggregate.                                                 *)
(***************************************************************************)
DefaultMaxHistory == 5

NewConversation(id, max_history) ==
  [id |-> id, max_history |-> max_history, messages |-> <<>>, topic |-> None,
   bot_position |-> None, bot_personality_type |-> None]

\* faulty variant: a conversation counts as new until the bot has replied
IsNewConversation_UntilBotReply(c) ==
  \A i \in 1..Len(c.messages) : c.messages[i].role # "bot"

IsNewConversation(c) == Len(c.messages) = 0

\* the topic_keywords dict, in its iteration order
TopicKeywords ==
  << <<"vaccine", "vaccines and public health">>,
     <<"climate", "climate change">>,
     <<"earth", "earth shape and geography">>,
     <<"government", "government and politics">>,
     <<"health", "health and medicine">>,
     <<"technology", "technology and society">>,
     <<"education", "education system">>,
     <<"economy", "economic policies">>,
     <<"science", "scientific methodology">> >>

RECURSIVE FirstTopic(_, _)
FirstTopic(content_lower, kws) ==
  IF kws = <<>> THEN "general debate topic"
  ELSE IF Contains(content_lower, Head(kws)[1]) THEN Head(kws)[2]
  ELSE FirstTopic(content_lower, Tail(kws))

IdentifyTopicKeywords(content) == FirstTopic(Lower(content), TopicKeywords)

DetermineContrarianPosition(topic) ==
  CASE topic = "vaccines and public health" -> "anti-vaccination and natural immunity advocate"
    [] topic = "climate change" -> "climate change skeptic"
    [] topic = "earth shape and geography" -> "flat earth proponent"
    [] topic = "government and politics" -> "anti-establishment libertarian"
    [] topic = "health and medicine" -> "alternative medicine advocate"
    [] topic = "technology and society" -> "technology skeptic"
    [] topic = "education system" -> "homeschooling and alternative education advocate"
    [] topic = "economic policies" -> "free market absolutist"
    [] topic = "scientific methodology" -> "traditional wisdom and intuition advocate"
    [] OTHER -> "devil's advocate contrarian"

ExtractTopicFromFirstMessage(c, content) ==
  LET topic == IdentifyTopicKeywords(content)
  IN  [c EXCEPT !.topic = topic,
                !.bot_position = DetermineContrarianPosition(topic)]

\* exchange_count
ExchangeCount(c) ==
  LET user_count == Cardinality({i \in 1..Len(c.messages) : c.messages[i].role = USER})
      bot_count == Cardinality({i \in 1..Len(c.messages) : c.messages[i].role = BOT})
  IN  IF user_count <= bot_count THEN user_count ELSE bot_count

\* faulty variant: the history is never cut
MaintainHistoryLimit_Never(c) == c

\* faulty variant: one message fewer than max_history * 2 is kept
MaintainHistoryLimit_OneLess(c) ==
  IF Len(c.messages) <= c.max_history * 2 - 1 THEN c
  ELSE [c EXCEPT !.messages = SubSeq(c.messages, Len(c.messages) - c.max_history * 2 + 2,
                                     Len(c.messages))]

\* faulty variant: the limit test is off by one
MaintainHistoryLimit_OffByOne(c) ==
  IF Len(c.messages) <= c.max_history * 2 + 1 THEN c
  ELSE [c EXCEPT !.messages = SubSeq(c.messages, Len(c.messages) - c.max_history * 2 + 1,
                                     Len(c.messages))]

\* faulty variant: the excess is cut from the recent end
MaintainHistoryLimit_DropNewest(c) ==
  IF Len(c.messages) <= c.max_history * 2 THEN c
  ELSE [c EXCEPT !.messages = SubSeq(c.messages, 1, c.max_history * 2)]

MaintainHistoryLimit(c) ==
  IF Len(c.messages) <= c.max_history * 2 THEN c
  ELSE LET excess_messages == Len(c.messages) - (c.max_history * 2)
       IN  [c EXCEPT !.messages = SubSeq(c.messages, excess_messages + 1, Len(c.messages))]

\* faulty variant: the topic is derived before the Message is constructed
AddUserMessage_TopicFirst(c, content, timestamp) ==
  LET c1 == IF IsNewConversation(c) THEN ExtractTopicFromFirstMessage(c, content) ELSE c
  IN  IF MessageInvalid(content)
      THEN [raised |-> "ValueError", conv |-> c1]
      ELSE LET message == NewMessage(USER, content, timestamp)
               c2 == [c1 EXCEPT !.messages = Append(c1.messages, message)]
           IN  [raised |-> None, conv |-> MaintainHistoryLimit(c2)]

\* add_user_message: the exception raised (or None) and the conversation after
\* the call; the returned Message is the last of conv.messages
AddUserMessage(c, content, timestamp) ==
  IF MessageInvalid(content)
  THEN [raised |-> "ValueError", conv |-> c]
  ELSE LET message == NewMessage(USER, content, timestamp)
           c1 == IF IsNewConversation(c) THEN ExtractTopicFromFirstMessage(c, content) ELSE c
           c2 == [c1 EXCEPT !.messages = Append(c1.messages, message)]
       IN  [raised |-> None, conv |-> MaintainHistoryLimit(c2)]

\* add_bot_message
AddBotMessage(c, content, timestamp) ==
  IF MessageInvalid(content)
  THEN [raised |-> "ValueError", conv |-> c]
  ELSE LET message == NewMessage(BOT, content, timestamp)
           c2 == [c EXCEPT !.messages = Append(c.messages, message)]
       IN  [raised |-> None, conv |-> MaintainHistoryLimit(c2)]

\* get_recent_messages(limit) with an integer limit: messages[-limit:]
GetRecentMessages(c, limit) ==
  IF limit > 0
  THEN SubSeq(c.messages, IF Len(c.messages) > limit THEN Len(c.messages) - limit + 1 ELSE 1,
              Len(c.messages))
  ELSE c.messages

\* get_recent_messages() with limit = None
GetRecentMessagesDefault(c) == GetRecentMessages(c, c.max_history * 2)

\* faulty variant: the limit is max_history, the number of exchanges
GetMessagesForApi_HalfLimit(c) ==
  LET recent_messages == GetRecentMessages(c, c.max_history)
  IN  [i \in 1..Len(recent_messages) |-> MessageToDict(recent_messages[i])]

\* get_messages_for_api
GetMessagesForApi(c) ==
  LET recent_messages == GetRecentMessages(c, c.max_history * 2)
  IN  [i \in 1..Len(recent_messages) |-> MessageToDict(recent_messages[i])]

\* the most messages a ChatResponse accepts
MaxResponseMessages == 10

\* ChatResponse.validate_messages_count: the exception raised, or None
ValidateMessagesCount(v) ==
  IF Len(v) > MaxResponseMessages THEN "ValueError" ELSE None

(***************************************************************************)
(* DebateOrchestrator.                                                     *)
(***************************************************************************)
CONSPIRACY_THEORIST == "conspiracy_theorist"
SKEPTICAL_SCIENTIST == "skeptical_scientist"
POPULIST == "populist"

\* the values of the PersonalityType enum
PersonalityType == {CONSPIRACY_THEORIST, SKEPTICAL_SCIENTIST, POPULIST}

\* truth value of an Optional[str]
Truthy(v) == v # None /\ v # ""

\* self._personalities: the strategy object registered for each type
Personalities(personality_type) ==
  CASE personality_type = CONSPIRACY_THEORIST -> "ConspiracyTheoristStrategy"
    [] personality_type = SKEPTICAL_SCIENTIST -> "SkepticalScientistStrategy"
    [] personality_type = POPULIST -> "PopulistStrategy"

\* the user_message argument: nothing, a str, or a Message entity
NoArg == [kind |-> "none", text |-> <<>>, role |-> USER]
StrArg(text) == [kind |-> "str", text |-> text, role |-> USER]
MessageArg(m) == [kind |-> "message", text |-> m.content, role |-> m.role]

\* str(user_message) if user_message else "general discussion"
UserMsgStr(user_message) ==
  IF user_message.kind = "message"
    THEN MessageStr([role |-> user_message.role, content |-> user_message.text])
  ELSE IF user_message.kind = "str" /\ user_message.text # <<>>
    THEN user_message.text
  ELSE <<Tok("general", 7), SP(1), Tok("discussion", 10)>>

ConspiracyWords == {"vaccine", "vaccination", "pharma", "medicine", "health", "immunity"}
ScientistWords == {"climate", "warming", "carbon", "environment", "green", "fossil"}
PopulistWords == {"economic", "capitalism", "market", "business", "job", "worker",
                  "education", "immigration", "elite"}

\* _select_personality_by_topic; rnd is the outcome of random.choice
SelectPersonalityByTopic(user_msg, rnd) ==
  IF ContainsAny(user_msg, ConspiracyWords) THEN CONSPIRACY_THEORIST
  ELSE IF ContainsAny(user_msg, ScientistWords) THEN SKEPTICAL_SCIENTIST
  ELSE IF ContainsAny(user_msg, PopulistWords) THEN POPULIST
  ELSE rnd

\* PersonalityType(value) raises ValueError unless value is a member's value
IsPersonalityValue(value) == value \in PersonalityType

\* faulty variant: a known preferred persona is honoured before the stored one
ResolvePersonality_PreferredFirst(conversation, user_msg, preferred_personality, rnd) ==
  IF Truthy(preferred_personality) /\ IsPersonalityValue(preferred_personality)
    THEN [raised |-> None, personality_type |-> preferred_personality]
  ELSE IF Truthy(conversation.bot_personality_type)
            /\ IsPersonalityValue(conversation.bot_personality_type)
    THEN [raised |-> None, personality_type |-> conversation.bot_personality_type]
  ELSE [raised |-> None, personality_type |-> SelectPersonalityByTopic(user_msg, rnd)]

\* faulty variant: the ValueError of PersonalityType(value) is not caught
ResolvePersonality_NoExcept(conversation, user_msg, preferred_personality, rnd) ==
  IF Truthy(conversation.bot_personality_type)
    THEN IF IsPersonalityValue(conversation.bot_personality_type)
           THEN [raised |-> None, personality_type |-> conversation.bot_personality_type]
           ELSE [raised |-> "ValueError", personality_type |-> None]
  ELSE IF Truthy(preferred_personality)
    THEN IF IsPersonalityValue(preferred_personality)
           THEN [raised |-> None, personality_type |-> preferred_personality]
           ELSE [raised |-> "ValueError", personality_type |-> None]
  ELSE [raised |-> None, personality_type |-> SelectPersonalityByTopic(user_msg, rnd)]

\* the try / except chain of generate_bot_response: the persona used for
\* this call
ResolvePersonality(conversation, user_msg, preferred_personality, rnd) ==
  IF Truthy(conversation.bot_personality_type)
    THEN IF IsPersonalityValue(conversation.bot_personality_type)
           THEN [raised |-> None, personality_type |-> conversation.bot_personality_type]
           ELSE [raised |-> None, personality_type |-> SelectPersonalityByTopic(user_msg, rnd)]
  ELSE IF Truthy(preferred_personality)
    THEN IF IsPersonalityValue(preferred_personality)
           THEN [raised |-> None, personality_type |-> preferred_personality]
           ELSE [raised |-> None, personality_type |-> SelectPersonalityByTopic(user_msg, rnd)]
  ELSE [raised |-> None, personality_type |-> SelectPersonalityByTopic(user_msg, rnd)]

\* faulty variant: the resolved persona is saved on every call
CommitPersonality_Always(conversation, personality_type) ==
  [conversation EXCEPT !.bot_personality_type = personality_type]

\* faulty variant: the resolved persona is never saved
CommitPersonality_Never(conversation, personality_type) == conversation

\* faulty variant: the stance of the persona is saved with it
CommitPersonality_WithPosition(conversation, personality_type) ==
  IF ~Truthy(conversation.bot_personality_type)
  THEN [conversation EXCEPT !.bot_personality_type = personality_type,
                            !.bot_position = "opposing"]
  ELSE conversation

\* "Save personality in new conversation": only when none is stored
CommitPersonality(conversation, personality_type) ==
  IF ~Truthy(conversation.bot_personality_type)
  THEN [conversation EXCEPT !.bot_personality_type = personality_type]
  ELSE conversation

\* _extract_topic
ExtractTopic(user_message) == Truncate(user_message, 100)

\* _get_opposing_stance
GetOpposingStance(personality) ==
  IF personality = CONSPIRACY_THEORIST THEN "skeptical_of_mainstream_narrative"
  ELSE IF personality = SKEPTICAL_SCIENTIST THEN "methodologically_critical"
  ELSE "pro_common_people_anti_elite"

\* _get_conversation_context
GetConversationContext(conversation) == <<>>

\* strategy.generate_response(context): a paragraph written for that
\* strategy's stance (the paragraph texts themselves are not modelled)
GenerateResponse(strategy, context) ==
  <<Tok(CASE strategy = "ConspiracyTheoristStrategy" -> "conspiracy-paragraph"
          [] strategy = "SkepticalScientistStrategy" -> "scientist-paragraph"
          [] strategy = "PopulistStrategy" -> "populist-paragraph", 500)>>

(***************************************************************************)
(* The three strategies, branch by branch.  A paragraph is one token named *)
(* after its branch; the generic templates carry the topic.                *)
(***************************************************************************)
\* the words of the inputs in which a shorter keyword occurs
SubstringPairs ==
  {<<"ai", "said">>, <<"who", "whole">>, <<"economic", "economics">>,
   <<"artificial", "artificial intelligence">>}

\* kw in s, for the keywords of the strategies: kw is a word of s or lies
\* within one
Occurs(s, kw) ==
  \E i \in 1..Len(s) : s[i].w = kw \/ <<kw, s[i].w>> \in SubstringPairs

\* any(word in user_msg for word in words)
OccursAny(s, kws) == \E kw \in kws : Occurs(s, kw)

Paragraph(name) == <<Tok(name, 500)>>

\* fallbacks[choice - 1] with the topic interpolated
Fallback(name, choice, topic) ==
  <<Tok(name, 40 + choice), SP(1)>> \o topic \o <<SP(1), Tok("x", 300)>>

\* the keywords of the branches of ConspiracyTheoristStrategy
ConspiracyKeywords ==
  [vaccine |-> {"vaccine", "vaccination", "immune"},
   safe |-> {"safe", "effective", "important"},
   who |-> {"who", "experts", "recommend"},
   climate |-> {"climate", "warming", "carbon"},
   human |-> {"human", "activities", "caused"},
   technology |->
     {"technology", "ai", "artificial", "internet", "social media", "facebook", "google"},
   food |-> {"food", "organic", "diet", "nutrition", "farming", "agriculture"},
   education |-> {"education", "university", "school", "academic", "research", "study"},
   sports |->
     {"sports", "athlete", "movie", "entertainment", "celebrity", "hollywood"},
   money |->
     {"money", "economy", "bank", "finance", "investment", "crypto", "bitcoin"},
   science |-> {"science", "scientific", "research", "experiment", "evidence"}]

\* _generate_conspiracy_response_for_any_topic
ConspiracyForAnyTopic(user_msg, topic, choice) ==
  IF OccursAny(user_msg, ConspiracyKeywords.technology) THEN Paragraph("conspiracy/technology")
  ELSE IF OccursAny(user_msg, ConspiracyKeywords.food) THEN Paragraph("conspiracy/food")
  ELSE IF OccursAny(user_msg, ConspiracyKeywords.education)
    THEN Paragraph("conspiracy/education")
  ELSE IF OccursAny(user_msg, ConspiracyKeywords.sports) THEN Paragraph("conspiracy/sports")
  ELSE IF OccursAny(user_msg, ConspiracyKeywords.money) THEN Paragraph("conspiracy/money")
  ELSE IF OccursAny(user_msg, ConspiracyKeywords.science) THEN Paragraph("conspiracy/science")
  ELSE Fallback("conspiracy/generic", choice, topic)

\* ConspiracyTheoristStrategy.generate_response
ConspiracyGenerateResponse(context, choice) ==
  LET user_msg == Lower(context.user_message)
  IN  IF OccursAny(user_msg, ConspiracyKeywords.vaccine)
      THEN IF OccursAny(user_msg, ConspiracyKeywords.safe) THEN Paragraph("conspiracy/vaccine/safe")
           ELSE IF OccursAny(user_msg, ConspiracyKeywords.who) THEN Paragraph("conspiracy/vaccine/who")
           ELSE Paragraph("conspiracy/vaccine")
      ELSE IF OccursAny(user_msg, ConspiracyKeywords.climate)
      THEN IF OccursAny(user_msg, ConspiracyKeywords.human) THEN Paragraph("conspiracy/climate/human")
           ELSE Paragraph("conspiracy/climate")
      ELSE ConspiracyForAnyTopic(user_msg, context.topic, choice)

\* the keywords of the branches of SkepticalScientistStrategy
ScientistKeywords ==
  [climate |-> {"climate", "warming", "carbon"},
   human |-> {"human", "activities", "caused"},
   consensus |-> {"97%", "consensus", "scientists"},
   vaccine |-> {"vaccine", "vaccination"},
   safe |-> {"safe", "effective"},
   psychology |->
     {"psychology", "mental health", "depression", "anxiety", "therapy", "meditation", "mindfulness"},
   nutrition |->
     {"nutrition", "diet", "organic", "supplement", "vitamin", "superfood", "healthy eating"},
   technology |->
     {"technology", "ai", "artificial intelligence", "automation", "algorithm"},
   exercise |->
     {"exercise", "fitness", "workout", "running", "gym", "strength training"},
   economics |->
     {"economics", "policy", "government", "regulation", "tax", "welfare", "minimum wage"},
   education |->
     {"education", "learning", "teaching", "school", "university", "student"}]

\* _generate_scientific_skepticism_for_any_topic
ScientistForAnyTopic(user_msg, topic, choice) ==
  IF OccursAny(user_msg, ScientistKeywords.psychology) THEN Paragraph("scientist/psychology")
  ELSE IF OccursAny(user_msg, ScientistKeywords.nutrition) THEN Paragraph("scientist/nutrition")
  ELSE IF OccursAny(user_msg, ScientistKeywords.technology) THEN Paragraph("scientist/technology")
  ELSE IF OccursAny(user_msg, ScientistKeywords.exercise) THEN Paragraph("scientist/exercise")
  ELSE IF OccursAny(user_msg, ScientistKeywords.economics) THEN Paragraph("scientist/economics")
  ELSE IF OccursAny(user_msg, ScientistKeywords.education) THEN Paragraph("scientist/education")
  ELSE Fallback("scientist/generic", choice, topic)

\* SkepticalScientistStrategy.generate_response
ScientistGenerateResponse(context, choice) ==
  LET user_msg == Lower(context.user_message)
  IN  IF OccursAny(user_msg, ScientistKeywords.climate)
      THEN IF OccursAny(user_msg, ScientistKeywords.human) THEN Paragraph("scientist/climate/human")
           ELSE IF OccursAny(user_msg, ScientistKeywords.consensus)
             THEN Paragraph("scientist/climate/consensus")
           ELSE Paragraph("scientist/climate")
      ELSE IF OccursAny(user_msg, ScientistKeywords.vaccine)
      THEN IF OccursAny(user_msg, ScientistKeywords.safe)
             THEN Paragraph("scientist/vaccine/safe")
           ELSE Paragraph("scientist/vaccine")
      ELSE ScientistForAnyTopic(user_msg, context.topic, choice)

\* the keywords of the branches of PopulistStrategy
PopulistKeywords ==
  [economic |-> {"economic", "capitalism", "market", "business"},
   education |-> {"education", "university", "college", "school"},
   immigration |-> {"immigration", "immigrant", "border"},
   health |-> {"health", "medical", "doctor"},
   technology |-> {"technology", "ai", "artificial intelligence", "automation", "robot"},
   sports |->
     {"sports", "athlete", "celebrity", "movie", "entertainment", "hollywood"},
   food |-> {"food", "organic", "farming", "agriculture", "nutrition"},
   cars |-> {"cars", "driving", "transportation", "public transport", "traffic"},
   environment |->
     {"environment", "energy", "pollution", "green", "renewable", "solar", "wind"},
   social |->
     {"social media", "internet", "facebook", "twitter", "instagram", "tiktok"}]

\* _generate_populist_response_for_any_topic
PopulistForAnyTopic(user_msg, topic, choice) ==
  IF OccursAny(user_msg, PopulistKeywords.technology) THEN Paragraph("populist/technology")
  ELSE IF OccursAny(user_msg, PopulistKeywords.sports) THEN Paragraph("populist/sports")
  ELSE IF OccursAny(user_msg, PopulistKeywords.food) THEN Paragraph("populist/food")
  ELSE IF OccursAny(user_msg, PopulistKeywords.cars) THEN Paragraph("populist/cars")
  ELSE IF OccursAny(user_msg, PopulistKeywords.environment)
    THEN Paragraph("populist/environment")
  ELSE IF OccursAny(user_msg, PopulistKeywords.social) THEN Paragraph("populist/social")
  ELSE Fallback("populist/generic", choice, topic)

\* faulty variant: the categories for any topic are tried before the topics
\* of the persona
PopulistGenerateResponse_AnyTopicFirst(context, choice) ==
  LET user_msg == Lower(context.user_message)
      any == PopulistForAnyTopic(user_msg, context.topic, choice)
  IN  IF any[1].w # "populist/generic" THEN any
      ELSE IF OccursAny(user_msg, PopulistKeywords.economic) THEN Paragraph("populist/economic")
      ELSE IF OccursAny(user_msg, PopulistKeywords.education)
        THEN Paragraph("populist/education")
      ELSE IF OccursAny(user_msg, PopulistKeywords.immigration)
        THEN Paragraph("populist/immigration")
      ELSE IF OccursAny(user_msg, PopulistKeywords.health) THEN Paragraph("populist/health")
      ELSE any

\* PopulistStrategy.generate_response
PopulistGenerateResponse(context, choice) ==
  LET user_msg == Lower(context.user_message)
  IN  IF OccursAny(user_msg, PopulistKeywords.economic) THEN Paragraph("populist/economic")
      ELSE IF OccursAny(user_msg, PopulistKeywords.education)
        THEN Paragraph("populist/education")
      ELSE IF OccursAny(user_msg, PopulistKeywords.immigration)
        THEN Paragraph("populist/immigration")
      ELSE IF OccursAny(user_msg, PopulistKeywords.health) THEN Paragraph("populist/health")
      ELSE PopulistForAnyTopic(user_msg, context.topic, choice)

\* strategy.generate_response(context), choice being the outcome of
\* random.choice(fallbacks); GenerateResponse above keeps of it only the
\* strategy that wrote the paragraph
StrategyGenerateResponse(strategy, context, choice) ==
  CASE strategy = "ConspiracyTheoristStrategy" -> ConspiracyGenerateResponse(context, choice)
    [] strategy = "SkepticalScientistStrategy" -> ScientistGenerateResponse(context, choice)
    [] strategy = "PopulistStrategy" -> PopulistGenerateResponse(context, choice)

\* generate_bot_response: [raised, conv, personality_type, strategy, reply]
GenerateBotResponse(conversation, user_message, preferred_personality, rnd) ==
  LET user_msg_str == UserMsgStr(user_message)
      user_msg == Lower(user_msg_str)
      res == ResolvePersonality(conversation, user_msg, preferred_personality, rnd)
  IN  IF res.raised # None
      THEN [raised |-> res.raised, conv |-> conversation, personality_type |-> None,
            strategy |-> None, reply |-> <<>>]
      ELSE LET personality_type == res.personality_type
               conv2 == CommitPersonality(conversation, personality_type)
               personality == Personalities(personality_type)
               context == [topic |-> ExtractTopic(user_msg_str),
                           user_message |-> user_msg_str,
                           bot_stance |-> GetOpposingStance(personality_type),
                           conversation_history |-> GetConversationContext(conversation)]
           IN  [raised |-> None, conv |-> conv2, personality_type |-> personality_type,
                strategy |-> personality, reply |-> GenerateResponse(personality, context)]

(***************************************************************************)
(* Inputs of the direct calls.                                             *)
(***************************************************************************)
\* "  Vaccine xxxxxxxxxxxx " : surrounding whitespace, a capitalised keyword
T_vaccine == <<SP(2), Tok("Vaccine", 7), SP(1), Tok("x", 12), SP(1)>>
\* no keyword at all
T_hello == <<Tok("hello", 5), SP(1), Tok("x", 5)>>
\* 48 characters, then " vaccine": the keyword starts at character 50
T_late == <<Tok("x", 48), SP(1), Tok("vaccine", 7)>>
\* "Climate market": a scientist keyword before a populist keyword
T_climate == <<Tok("Climate", 7), SP(1), Tok("market", 6)>>
T_empty == <<>>
T_blank == <<SP(3)>>
T_toolong == <<Tok("x", MaxContentLen + 1)>>
T_short == <<Tok("x", 4)>>
\* exactly 5 characters once trimmed, and exactly 2000
T_five == <<SP(2), Tok("hello", MinMessageLen), SP(1)>>
T_max == <<Tok("elite", 5), SP(1), Tok("x", MaxContentLen - 6)>>
T_botreply == <<Tok("populist-paragraph", 500)>>

UserContents == {T_vaccine, T_hello, T_empty, T_blank, T_toolong}
BotContents == {T_botreply, T_empty, T_blank, <<SP(1)>> \o T_toolong}
UserMessageArgs ==
  {NoArg, StrArg(T_climate), MessageArg(NewMessage(USER, T_vaccine, 0)),
   MessageArg(NewMessage(USER, T_late, 0)), MessageArg(NewMessage(USER, T_hello, 0))}
PreferredArgs == {None, "", POPULIST, "flat_earther"}
\* what a Conversation can be constructed with in bot_personality_type
StoredAtConstruction == {None, "", "retired_persona"}

(***************************************************************************)
(* State.                                                                  *)
(***************************************************************************)
VARIABLES
  conv,          \* the Conversation driven by direct calls
  appended,      \* every Message appended to conv so far, in order (history)
  lastCall,      \* the last direct call on conv, its arguments and its outcome
  heap,          \* the Conversation objects created by Start, by reference
  conversations, \* MemoryConversationStore._conversations: key -> reference
  task,          \* the use-case calls in flight, one per task
  issued,        \* number of use-case calls issued so far
  faults,        \* number of repository calls that have failed so far
  lock           \* MemoryConversationStore._lock: the task holding it, or 0

domainVars == <<conv, appended, lastCall>>

ucVars == <<heap, conversations, task, issued, faults, lock>>

vars == <<conv, appended, lastCall, heap, conversations, task, issued, faults, lock>>

NoRequest == [conversation_id |-> [uuid |-> 0, form |-> "empty"], message |-> <<>>,
              preferred_personality |-> None]

NoCall ==
  [op |-> "none", raised |-> None, pre_personality |-> None, pre_len |-> 0,
   user_message |-> NoArg, preferred |-> None, rnd |-> None,
   personality_type |-> None, strategy |-> None, reply |-> <<>>,
   request |-> NoRequest, cause |-> None, returned |-> 0,
   limit |-> [given |-> FALSE, n |-> 0], messages |-> <<>>,
   id |-> [value |-> [uuid |-> 0, form |-> "empty"]], choice |-> 0]

Tasks == 1..NumTasks

\* a use-case call: where it stands (pc), its request, the Conversation it
\* holds (ref), the repository calls it has made, and what the caller gets:
\* the exception raised with its use_case tag, or response_id and response.
\* History kept for the properties: cause is the exception caught inside
\* execute, found the messages of the conversation as find_by_id returned
\* it, overlap whether another Continue held the same conversation meanwhile.
IdleTask ==
  [pc |-> "idle", op |-> "none", req |-> NoRequest, seq |-> 0, ref |-> 0,
   repo_calls |-> <<>>, raised |-> None, use_case |-> None, cause |-> None,
   response |-> <<>>, response_id |-> [uuid |-> 0, form |-> "empty"],
   found |-> <<>>, overlap |-> FALSE, existing |-> 0]

InitUC ==
  /\ heap = <<>>
  /\ conversations = [k \in {} |-> 0]
  /\ task = [t \in Tasks |-> IdleTask]
  /\ issued = 0
  /\ faults = 0
  /\ lock = 0

Init ==
  /\ \E k \in 1..MaxK, p \in StoredAtConstruction :
        conv = [NewConversation(0, k) EXCEPT !.bot_personality_type = p]
  /\ appended = <<>>
  /\ lastCall = NoCall
  /\ InitUC

\* conversation.add_user_message(content), while fewer than `bound` messages
\* have been appended
AppendUser(bound) ==
  /\ Len(appended) < bound
  /\ \E content \in UserContents :
       LET r == AddUserMessage(conv, content, Len(appended) + 1)
       IN  /\ conv' = r.conv
           /\ appended' = IF r.raised = None
                           THEN Append(appended, NewMessage(USER, content, Len(appended) + 1))
                           ELSE appended
           /\ lastCall' = [NoCall EXCEPT !.op = "add_user_message",
                                         !.raised = r.raised,
                                         !.user_message = StrArg(content),
                                         !.pre_personality = conv.bot_personality_type,
                                         !.pre_len = Len(conv.messages)]
           /\ UNCHANGED ucVars

\* conversation.add_bot_message(content)
AppendBot(bound) ==
  /\ Len(appended) < bound
  /\ \E content \in BotContents :
       LET r == AddBotMessage(conv, content, Len(appended) + 1)
       IN  /\ conv' = r.conv
           /\ appended' = IF r.raised = None
                           THEN Append(appended, NewMessage(BOT, content, Len(appended) + 1))
                           ELSE appended
           /\ lastCall' = [NoCall EXCEPT !.op = "add_bot_message",
                                         !.raised = r.raised,
                                         !.user_message = StrArg(content),
                                         !.pre_personality = conv.bot_personality_type,
                                         !.pre_len = Len(conv.messages)]
           /\ UNCHANGED ucVars

\* the limit argument of get_recent_messages: left out, or an integer
LimitArgs ==
  {[given |-> FALSE, n |-> 0]} \cup {[given |-> TRUE, n |-> n] : n \in (-1)..MaxLimit}

\* conversation.get_recent_messages(limit) / get_recent_messages()
GetRecentMessagesCall ==
  /\ \E limit \in LimitArgs :
       lastCall' = [NoCall EXCEPT !.op = "get_recent_messages",
                                  !.pre_len = Len(conv.messages),
                                  !.limit = limit,
                                  !.messages = IF limit.given
                                               THEN GetRecentMessages(conv, limit.n)
                                               ELSE GetRecentMessagesDefault(conv)]
  /\ UNCHANGED <<conv, appended>>
  /\ UNCHANGED ucVars

(***************************************************************************)
(* Spec: one Conversation, its two mutators and get_recent_messages, in    *)
(* any order.                                                              *)
(***************************************************************************)
AddUserMessageCall == AppendUser(MaxAppends)

AddBotMessageCall == AppendBot(MaxAppends)

Next ==
  \/ AddUserMessageCall
  \/ AddBotMessageCall
  \/ GetRecentMessagesCall

Spec == Init /\ [][Next]_vars

(***************************************************************************)
(* SpecOrch: the orchestrator called on a Conversation, between appends.   *)
(***************************************************************************)
OrchAddUserMessage == AppendUser(MaxOrchAppends)

OrchAddBotMessage == AppendBot(MaxOrchAppends)

\* orchestrator.generate_bot_response(conv, user_message, preferred_personality)
GenerateBotResponseCall ==
  \E user_message \in UserMessageArgs, preferred \in PreferredArgs,
     rnd \in PersonalityType :
    LET r == GenerateBotResponse(conv, user_message, preferred, rnd)
    IN  /\ conv' = r.conv
        /\ appended' = appended
        /\ lastCall' = [op |-> "generate_bot_response", raised |-> r.raised,
                        pre_personality |-> conv.bot_personality_type,
                        pre_len |-> Len(conv.messages),
                        user_message |-> user_message, preferred |-> preferred,
                        rnd |-> rnd,
                        personality_type |-> r.personality_type,
                        strategy |-> r.strategy, reply |-> r.reply,
                        request |-> NoRequest, cause |-> None, returned |-> 0,
                        limit |-> [given |-> FALSE, n |-> 0], messages |-> <<>>,
                        id |-> [value |-> [uuid |-> 0, form |-> "empty"]],
                        choice |-> 0]
        /\ UNCHANGED ucVars

NextOrch ==
  \/ OrchAddUserMessage
  \/ OrchAddBotMessage
  \/ GenerateBotResponseCall

SpecOrch == Init /\ [][NextOrch]_vars

(***************************************************************************)
(* ConversationId.  An id string is [uuid, form]: the 128-bit value it     *)
(* spells (0 for none) and the way it is written.  A ConversationId is     *)
(* [value]: the string it was constructed with.                            *)
(***************************************************************************)
Canonical(n) == [uuid |-> n, form |-> "canonical"]   \* 8-4-4-4-12 lower-case hex
Hex32(n) == [uuid |-> n, form |-> "hex32"]           \* the same digits, no hyphens
Padded31(n) == [uuid |-> n, form |-> "hex31 "]       \* 31 hex digits and a blank
Malformed == [uuid |-> 0, form |-> "malformed"]      \* e.g. "invalid-uuid"
EmptyId == [uuid |-> 0, form |-> "empty"]            \* ""

\* uuid.UUID(value) succeeds: after removing hyphens it has 32 characters
\* that int(hex, 16) reads (int allows blanks around the digits)
UuidParses(value) == value.form \in {"canonical", "hex32", "hex31 "}

\* value.strip()
StripId(value) ==
  IF value.form = "hex31 " THEN [value EXCEPT !.form = "hex31"] ELSE value

\* ConversationId.generate(): the n-th fresh uuid4, rendered by str(uuid)
GenerateId(n) == [value |-> Canonical(n)]

\* ConversationId.from_string raises ValueError
FromStringRaises(value) == value.form = "empty" \/ ~UuidParses(value)

\* faulty variant: the id keeps the hex digits of the uuid that was read
FromString_Hex(value) == [value |-> [value EXCEPT !.form = "hex32"]]

\* ConversationId.from_string(value), when it does not raise
FromString(value) == [value |-> StripId(value)]

\* str(conversation_id)
IdStr(id) == id.value

(***************************************************************************)
(* SpecId: ids generated, and from_string called on strings.  lastCall is  *)
(* the call made last, with the string it was given and the id it          *)
(* returned.                                                               *)
(***************************************************************************)
\* the strings from_string is called with
IdStrings ==
  {Canonical(n) : n \in 1..MaxIds} \cup {Hex32(n) : n \in 1..MaxIds}
    \cup {Padded31(n) : n \in 1..MaxIds} \cup {Malformed, EmptyId}

\* ConversationId.generate()
GenerateCall ==
  /\ issued < MaxIds
  /\ issued' = issued + 1
  /\ lastCall' = [NoCall EXCEPT !.op = "generate", !.id = GenerateId(issued + 1)]
  /\ UNCHANGED <<lock, conv, appended, heap, conversations, task, faults>>

\* ConversationId.from_string(value)
FromStringCall ==
  /\ \E value \in IdStrings :
       lastCall' =
         IF FromStringRaises(value)
         THEN [NoCall EXCEPT !.op = "from_string", !.raised = "ValueError",
                             !.request = [NoRequest EXCEPT !.conversation_id = value]]
         ELSE [NoCall EXCEPT !.op = "from_string", !.id = FromString(value),
                             !.request = [NoRequest EXCEPT !.conversation_id = value]]
  /\ UNCHANGED <<conv, appended>>
  /\ UNCHANGED ucVars

NextId ==
  \/ GenerateCall
  \/ FromStringCall

(***************************************************************************)
(* MemoryConversationStore and MemoryConversationRepository.  A reference  *)
(* is an index into heap; 0 stands for None.                               *)
(***************************************************************************)
\* In every operation below, `fails` says that the body of the store method
\* raised an exception (the case its `except Exception` clause handles).

\* MemoryConversationStore.store: [raised, store]
StoreStore(store, key, ref, fails) ==
  IF fails THEN [raised |-> "MemoryRepositoryException", store |-> store]
  ELSE [raised |-> None,
        store |-> [k \in DOMAIN store \cup {key} |-> IF k = key THEN ref ELSE store[k]]]

\* faulty variant: the store hands out a copy of the stored Conversation
StoreRetrieve_Copy(store, objects, key, fails) ==
  IF fails THEN [raised |-> "MemoryRepositoryException", ref |-> 0, heap |-> objects]
  ELSE IF key \in DOMAIN store
  THEN [raised |-> None, ref |-> Len(objects) + 1,
        heap |-> Append(objects, objects[store[key]])]
  ELSE [raised |-> None, ref |-> 0, heap |-> objects]

\* MemoryConversationStore.retrieve: [raised, ref, heap].  dict.get returns
\* the stored object itself, so no object is created
StoreRetrieve(store, objects, key, fails) ==
  IF fails THEN [raised |-> "MemoryRepositoryException", ref |-> 0, heap |-> objects]
  ELSE [raised |-> None, ref |-> IF key \in DOMAIN store THEN store[key] ELSE 0,
        heap |-> objects]

\* faulty variant: update writes the conversation whether stored or not
StoreUpdate_Upsert(store, key, ref, fails) ==
  IF fails THEN [raised |-> "MemoryRepositoryException", store |-> store]
  ELSE [raised |-> None,
        store |-> [k \in DOMAIN store \cup {key} |-> IF k = key THEN ref ELSE store[k]]]

\* MemoryConversationStore.update: [raised, store]
StoreUpdate(store, key, ref, fails) ==
  IF fails THEN [raised |-> "MemoryRepositoryException", store |-> store]
  ELSE IF key \notin DOMAIN store
  THEN [raised |-> "MemoryRepositoryException: not found", store |-> store]
  ELSE [raised |-> None, store |-> [store EXCEPT ![key] = ref]]

\* MemoryConversationStore.delete: [raised, store, returned]
StoreDelete(store, key, fails) ==
  IF fails
  THEN [raised |-> "MemoryRepositoryException", store |-> store, returned |-> FALSE]
  ELSE IF key \in DOMAIN store
  THEN [raised |-> None, store |-> [k \in DOMAIN store \ {key} |-> store[k]],
        returned |-> TRUE]
  ELSE [raised |-> None, store |-> store, returned |-> FALSE]

\* MemoryConversationStore.clear: [raised, store]
StoreClear(store, fails) ==
  IF fails THEN [raised |-> "MemoryRepositoryException", store |-> store]
  ELSE [raised |-> None, store |-> [k \in {} |-> 0]]

\* MemoryConversationStore.count: [raised, returned]
StoreCount(store, fails) ==
  IF fails THEN [raised |-> "MemoryRepositoryException", returned |-> 0]
  ELSE [raised |-> None, returned |-> Cardinality(DOMAIN store)]

\* MemoryConversationRepository.save: [raised, store]
RepoSave(store, key, ref, fails) ==
  LET s == StoreStore(store, key, ref, fails)
  IN  IF s.raised = None THEN s
      ELSE [raised |-> "RepositoryException", store |-> store]

\* MemoryConversationRepository.find_by_id: [raised, ref, heap]
RepoFindById(store, objects, key, fails) ==
  LET r == StoreRetrieve(store, objects, key, fails)
  IN  IF r.raised = None THEN r
      ELSE [raised |-> "RepositoryException", ref |-> 0, heap |-> objects]

\* What goes wrong in MemoryConversationRepository.update: nothing, or the
\* body of store.retrieve or of store.update raises an exception, whose text
\* may hold the words "not found"
NoFault == "none"
UpdateFaults ==
  {"retrieve", "retrieve: not found", "update", "update: not found"}

\* faulty variant: a conversation that is not stored is stored by update
RepoUpdate_Upsert(store, objects, key, ref, fault) ==
  LET existing == StoreRetrieve(store, objects, key,
                                fault \in {"retrieve", "retrieve: not found"})
  IN  IF existing.raised # None
      THEN [raised |-> IF fault = "retrieve: not found"
                       THEN "ConversationNotFoundException"
                       ELSE "RepositoryException", store |-> store]
      ELSE LET u == StoreStore(store, key, ref, fault \in {"update", "update: not found"})
           IN  IF u.raised = None THEN u
               ELSE [raised |-> "RepositoryException", store |-> store]

\* MemoryConversationRepository.update: [raised, store].  A
\* MemoryRepositoryException whose message holds "not found" is translated
\* to ConversationNotFoundException, any other one to RepositoryException
RepoUpdate(store, objects, key, ref, fault) ==
  LET existing == StoreRetrieve(store, objects, key,
                                fault \in {"retrieve", "retrieve: not found"})
  IN  IF existing.raised # None
      THEN [raised |-> IF fault = "retrieve: not found"
                       THEN "ConversationNotFoundException"
                       ELSE "RepositoryException", store |-> store]
      ELSE IF existing.ref = 0
      THEN [raised |-> "ConversationNotFoundException", store |-> store]
      ELSE LET u == StoreUpdate(store, key, ref, fault \in {"update", "update: not found"})
           IN  IF u.raised = None THEN u
               ELSE IF u.raised = "MemoryRepositoryException: not found"
                         \/ fault = "update: not found"
               THEN [raised |-> "ConversationNotFoundException", store |-> store]
               ELSE [raised |-> "RepositoryException", store |-> store]

\* faulty variant: delete has no except clauses
RepoDelete_Unwrapped(store, key, fails) == StoreDelete(store, key, fails)

\* MemoryConversationRepository.delete: [raised, store, returned]
RepoDelete(store, key, fails) ==
  LET r == StoreDelete(store, key, fails)
  IN  IF r.raised = None THEN r
      ELSE [raised |-> "RepositoryException", store |-> store, returned |-> FALSE]

\* MemoryConversationRepository.count_active_conversations: [raised, returned]
RepoCount(store, fails) ==
  LET r == StoreCount(store, fails)
  IN  IF r.raised = None THEN r
      ELSE [raised |-> "RepositoryException", returned |-> 0]

(***************************************************************************)
(* Use cases.                                                              *)
(***************************************************************************)
\* the methods DebateOrchestrator defines
OrchestratorMethods ==
  {"generate_bot_response", "_select_personality_by_topic", "_extract_topic",
   "_get_opposing_stance", "_get_conversation_context", "get_initial_stance"}

\* faulty variant: a message of exactly five characters is too short
MessageCheck_Exclusive(message) ==
  IF message = <<>> \/ Strip(message) = <<>> THEN "ValidationException"
  ELSE IF TextLen(Strip(message)) > MaxContentLen THEN "ValidationException"
  ELSE IF TextLen(Strip(message)) <= MinMessageLen THEN "ValidationException"
  ELSE None

\* the message checks shared by both _validate_request methods
MessageCheck(message) ==
  IF message = <<>> \/ Strip(message) = <<>> THEN "ValidationException"
  ELSE IF TextLen(Strip(message)) > MaxContentLen THEN "ValidationException"
  ELSE IF TextLen(Strip(message)) < MinMessageLen THEN "ValidationException"
  ELSE None

\* the personality check shared by both _validate_request methods: it calls
\* self._debate_orchestrator.get_available_personalities()
PersonalityCheck(preferred_personality) ==
  IF Truthy(preferred_personality)
  THEN IF "get_available_personalities" \notin OrchestratorMethods
       THEN "AttributeError"
       ELSE IF preferred_personality \notin PersonalityType
            THEN "ValidationException" ELSE None
  ELSE None

\* StartConversationUseCase._validate_request: the exception raised, or None
ValidateStartRequest(request) ==
  IF MessageCheck(request.message) # None THEN MessageCheck(request.message)
  ELSE PersonalityCheck(request.preferred_personality)

\* faulty variant: only the conversation id is validated before the lookup
ValidateContinueRequest_IdOnly(request) ==
  IF request.conversation_id.form = "empty" THEN "ValidationException"
  ELSE IF FromStringRaises(request.conversation_id) THEN "ValidationException"
  ELSE None

\* ContinueDebateUseCase._validate_request: the exception raised, or None
ValidateContinueRequest(request) ==
  IF request.conversation_id.form = "empty" THEN "ValidationException"
  ELSE IF FromStringRaises(request.conversation_id) THEN "ValidationException"
  ELSE IF MessageCheck(request.message) # None THEN MessageCheck(request.message)
  ELSE PersonalityCheck(request.preferred_personality)

\* faulty variant: no `except Exception` clause
StartRaises_PassThrough(exc) == exc

\* the except clauses of StartConversationUseCase.execute: the exception
\* that leaves execute when exc is raised inside it
StartRaises(exc) ==
  IF exc = "ValidationException" THEN exc ELSE "UseCaseException"

\* faulty variant: ConversationNotFoundException is not re-raised as it is
ContinueRaises_WrapsNotFound(exc) ==
  IF exc = "ValidationException" THEN exc ELSE "UseCaseException"

\* the except clauses of ContinueDebateUseCase.execute
ContinueRaises(exc) ==
  IF exc \in {"ValidationException", "ConversationNotFoundException"} THEN exc
  ELSE "UseCaseException"

\* UseCaseException(message, use_case).use_case; the other exceptions carry
\* no use-case name
UseCaseOf(raised, name) == IF raised = "UseCaseException" THEN name ELSE None

\* a Start call ends with exc raised inside execute
StartFails(call, exc) ==
  [call EXCEPT !.pc = "done", !.cause = exc, !.raised = StartRaises(exc),
               !.use_case = UseCaseOf(StartRaises(exc), "StartConversation")]

\* a Continue call ends with exc raised inside execute
ContinueFails(call, exc) ==
  [call EXCEPT !.pc = "done", !.cause = exc, !.raised = ContinueRaises(exc),
               !.use_case = UseCaseOf(ContinueRaises(exc), "ContinueDebate")]

\* faulty variant: the reply is generated but not added to the conversation
Exchange_ReplyNotAppended(conversation, request, timestamp, rnd) ==
  LET r1 == AddUserMessage(conversation, request.message, timestamp)
  IN  IF r1.raised # None THEN [raised |-> r1.raised, conv |-> r1.conv]
      ELSE LET user_message == r1.conv.messages[Len(r1.conv.messages)]
               g == GenerateBotResponse(r1.conv, MessageArg(user_message),
                                        request.preferred_personality, rnd)
           IN  [raised |-> g.raised, conv |-> g.conv]

\* faulty variant: the reply is generated for the message passed in and
\* added before the user message
Exchange_ReplyFirst(conversation, request, timestamp, rnd) ==
  LET g == GenerateBotResponse(conversation,
                               MessageArg(NewMessage(USER, request.message, timestamp)),
                               request.preferred_personality, rnd)
  IN  IF g.raised # None THEN [raised |-> g.raised, conv |-> g.conv]
      ELSE LET r1 == AddBotMessage(g.conv, g.reply, timestamp)
           IN  IF r1.raised # None THEN [raised |-> r1.raised, conv |-> r1.conv]
               ELSE AddUserMessage(r1.conv, request.message, timestamp)

\* add user message, generate the reply, add it: the body of both execute
\* methods between the repository calls; [raised, conv]
Exchange(conversation, request, timestamp, rnd) ==
  LET r1 == AddUserMessage(conversation, request.message, timestamp)
  IN  IF r1.raised # None THEN [raised |-> r1.raised, conv |-> r1.conv]
      ELSE LET user_message == r1.conv.messages[Len(r1.conv.messages)]
               g == GenerateBotResponse(r1.conv, MessageArg(user_message),
                                        request.preferred_personality, rnd)
           IN  IF g.raised # None THEN [raised |-> g.raised, conv |-> g.conv]
               ELSE AddBotMessage(g.conv, g.reply, timestamp)

StartRequest(message, preferred) ==
  [NoRequest EXCEPT !.message = message, !.preferred_personality = preferred]

ContinueRequest(conversation_id, message, preferred) ==
  [conversation_id |-> conversation_id, message |-> message,
   preferred_personality |-> preferred]

\* the Start calls issued: a valid one, one with an invalid message, and
\* one per kind of preferred persona
StartRequests ==
  {StartRequest(T_five, None), StartRequest(T_short, None),
   StartRequest(T_hello, POPULIST), StartRequest(T_hello, "flat_earther")}

\* the Continue calls issued: on the first conversation with two valid
\* messages, an invalid one and a preferred persona, on the second
\* conversation, and on ids written otherwise
ContinueRequests ==
  {ContinueRequest(Canonical(1), T_five, None),
   ContinueRequest(Canonical(1), T_max, None),
   ContinueRequest(Canonical(1), T_short, None),
   ContinueRequest(Canonical(1), T_hello, POPULIST),
   ContinueRequest(Canonical(2), T_hello, None),
   ContinueRequest(Hex32(1), T_hello, None),
   ContinueRequest(Malformed, T_hello, None)}

\* the messages validated: none, blank, and 4, 5, 11, 2000 and 2001 characters
\* with and without spaces around them
ValidatedMessages ==
  {T_empty, T_blank, T_short, <<SP(1)>> \o T_short \o <<SP(3)>>,
   T_five, <<Tok("hello", MinMessageLen)>>, T_hello,
   T_max, <<SP(1)>> \o T_max \o <<SP(1)>>,
   T_toolong, <<SP(2)>> \o T_toolong}

ValidatedStartRequests ==
  {StartRequest(message, preferred) :
     message \in ValidatedMessages, preferred \in PreferredArgs}

ValidatedContinueRequests ==
  {ContinueRequest(conversation_id, message, preferred) :
     conversation_id \in {Canonical(1), Hex32(1), Malformed, EmptyId},
     message \in ValidatedMessages, preferred \in PreferredArgs}

\* StartConversationUseCase._validate_request(request)
ValidateStartCall ==
  /\ \E request \in ValidatedStartRequests :
       lastCall' = [NoCall EXCEPT !.op = "StartConversation._validate_request",
                                  !.raised = ValidateStartRequest(request),
                                  !.request = request]
  /\ UNCHANGED <<conv, appended>>
  /\ UNCHANGED ucVars

\* ContinueDebateUseCase._validate_request(request)
ValidateContinueCall ==
  /\ \E request \in ValidatedContinueRequests :
       lastCall' = [NoCall EXCEPT !.op = "ContinueDebate._validate_request",
                                  !.raised = ValidateContinueRequest(request),
                                  !.request = request]
  /\ UNCHANGED <<conv, appended>>
  /\ UNCHANGED ucVars

\* the outcomes of the next repository call: it can fail while fewer than
\* MaxFaults calls have failed
MayFail == IF faults < MaxFaults THEN BOOLEAN ELSE {FALSE}

\* the outcomes of the next repository.update call made by a use case (a
\* failure of its first store call ends like one of its second)
MayFailUpdate ==
  IF faults < MaxFaults THEN {NoFault, "update", "update: not found"} ELSE {NoFault}

\* a task is free before its first call and once its call has returned or
\* raised; it keeps the outcome of that call until it runs the next one
Free(t) == task[t].pc \in {"idle", "done"}

\* a new call runs as the first task that is free (the tasks differ in
\* nothing but their number)
FirstFree(t) == Free(t) /\ \A u \in Tasks : u < t => ~Free(u)

\* StartConversationUseCase.execute, up to `await repository.save`
StartCall(t) ==
  /\ FirstFree(t)
  /\ issued < MaxRequests
  /\ issued' = issued + 1
  /\ faults' = faults
  /\ \E request \in StartRequests, rnd \in PersonalityType :
       LET started == [IdleTask EXCEPT !.op = "start", !.req = request,
                                       !.seq = issued + 1]
           invalid == ValidateStartRequest(request)
           conversation == NewConversation(GenerateId(Len(heap) + 1), DefaultMaxHistory)
           x == Exchange(conversation, request, issued + 1, rnd)
       IN  IF invalid # None
           THEN /\ task' = [task EXCEPT ![t] = StartFails(started, invalid)]
                /\ UNCHANGED <<heap, conversations>>
           ELSE IF x.raised # None
           THEN /\ task' = [task EXCEPT ![t] = StartFails(started, x.raised)]
                /\ UNCHANGED <<heap, conversations>>
           ELSE /\ heap' = Append(heap, x.conv)
                /\ task' = [task EXCEPT ![t] = [started EXCEPT !.pc = "save",
                                                  !.ref = Len(heap) + 1]]
                /\ UNCHANGED conversations
  /\ UNCHANGED <<domainVars, lock>>

\* faulty variant: the conversation is saved a second time before the
\* response is built
StartSave_Twice(t) ==
  /\ task[t].pc = "save"
  /\ \E fails \in MayFail :
       LET conversation == heap[task[t].ref]
           r1 == RepoSave(conversations, IdStr(conversation.id), task[t].ref, fails)
           r == IF r1.raised # None THEN r1
                ELSE RepoSave(r1.store, IdStr(conversation.id), task[t].ref, FALSE)
           called == [task[t] EXCEPT !.repo_calls =
                        IF r1.raised # None THEN Append(@, "save")
                        ELSE Append(Append(@, "save"), "save")]
       IN  /\ conversations' = r.store
           /\ task' = [task EXCEPT ![t] =
                         IF r.raised # None THEN StartFails(called, r.raised)
                         ELSE [called EXCEPT !.pc = "done",
                                             !.response_id = IdStr(conversation.id),
                                             !.response = GetMessagesForApi(conversation)]]
           /\ faults' = IF fails THEN faults + 1 ELSE faults
  /\ UNCHANGED <<heap, issued>>
  /\ UNCHANGED <<domainVars, lock>>

\* `await repository.save(conversation)` and the response
StartSave(t) ==
  /\ task[t].pc = "save"
  /\ \E fails \in MayFail :
       LET conversation == heap[task[t].ref]
           r == RepoSave(conversations, IdStr(conversation.id), task[t].ref, fails)
           called == [task[t] EXCEPT !.repo_calls = Append(@, "save")]
       IN  /\ conversations' = r.store
           /\ task' = [task EXCEPT ![t] =
                         IF r.raised # None THEN StartFails(called, r.raised)
                         ELSE [called EXCEPT !.pc = "done",
                                             !.response_id = IdStr(conversation.id),
                                             !.response = GetMessagesForApi(conversation)]]
           /\ faults' = IF fails THEN faults + 1 ELSE faults
  /\ UNCHANGED <<heap, issued>>
  /\ UNCHANGED <<domainVars, lock>>

\* ContinueDebateUseCase.execute, up to `await repository.find_by_id`
ContinueCall(t) ==
  /\ FirstFree(t)
  /\ issued < MaxRequests
  /\ issued' = issued + 1
  /\ faults' = faults
  /\ \E request \in ContinueRequests :
       LET started == [IdleTask EXCEPT !.op = "continue", !.req = request,
                                       !.seq = issued + 1]
           invalid == ValidateContinueRequest(request)
       IN  task' = [task EXCEPT ![t] =
                      IF invalid # None THEN ContinueFails(started, invalid)
                      ELSE [started EXCEPT !.pc = "find"]]
  /\ UNCHANGED <<heap, conversations>>
  /\ UNCHANGED <<domainVars, lock>>

\* the other Continue calls that hold the conversation of this id: they have
\* it from find_by_id and have not completed their update
HoldersOf(conversation_id, t) ==
  {u \in Tasks \ {t} : /\ task[u].op = "continue"
                       /\ task[u].pc = "update"
                       /\ task[u].req.conversation_id = conversation_id}

\* `await repository.find_by_id(conversation_id)`, then the exchange on the
\* object found, up to `await repository.update`
ContinueFind(t) ==
  /\ task[t].pc = "find"
  /\ \E rnd \in PersonalityType, fails \in MayFail :
       LET request == task[t].req
           conversation_id == FromString(request.conversation_id)
           f == RepoFindById(conversations, heap, IdStr(conversation_id), fails)
           called == [task[t] EXCEPT !.repo_calls = Append(@, "find_by_id")]
           holders == HoldersOf(request.conversation_id, t)
       IN  /\ faults' = IF fails THEN faults + 1 ELSE faults
           /\ IF f.raised # None
              THEN /\ task' = [task EXCEPT ![t] = ContinueFails(called, f.raised)]
                   /\ heap' = heap
              ELSE IF f.ref = 0
              THEN /\ task' = [task EXCEPT ![t] =
                                 ContinueFails(called, "ConversationNotFoundException")]
                   /\ heap' = heap
              ELSE LET x == Exchange(f.heap[f.ref], request, task[t].seq, rnd)
                       found == [called EXCEPT !.ref = f.ref,
                                               !.found = f.heap[f.ref].messages]
                   IN  /\ heap' = [f.heap EXCEPT ![f.ref] = x.conv]
                       /\ task' =
                            IF x.raised # None
                            THEN [task EXCEPT ![t] = ContinueFails(found, x.raised)]
                            ELSE [u \in Tasks |->
                                    IF u = t
                                    THEN [found EXCEPT !.pc = "update",
                                                       !.overlap = holders # {}]
                                    ELSE IF u \in holders
                                    THEN [task[u] EXCEPT !.overlap = TRUE]
                                    ELSE task[u]]
  /\ UNCHANGED <<conversations, issued>>
  /\ UNCHANGED <<domainVars, lock>>

\* `await repository.update(conversation)` and the response
ContinueUpdate(t) ==
  /\ task[t].pc = "update"
  /\ \E fault \in MayFailUpdate :
       LET conversation == heap[task[t].ref]
           fails == fault # NoFault
           r == RepoUpdate(conversations, heap, IdStr(conversation.id), task[t].ref, fault)
           called == [task[t] EXCEPT !.repo_calls = Append(@, "update")]
       IN  /\ conversations' = r.store
           /\ task' = [task EXCEPT ![t] =
                         IF r.raised # None THEN ContinueFails(called, r.raised)
                         ELSE [called EXCEPT !.pc = "done",
                                             !.response_id = IdStr(conversation.id),
                                             !.response = GetMessagesForApi(conversation)]]
           /\ faults' = IF fails THEN faults + 1 ELSE faults
  /\ UNCHANGED <<heap, issued>>
  /\ UNCHANGED <<domainVars, lock>>

NextUC ==
  \E t \in Tasks :
    \/ StartCall(t)
    \/ StartSave(t)
    \/ ContinueCall(t)
    \/ ContinueFind(t)
    \/ ContinueUpdate(t)

\* the directly driven Conversation takes no part in the use cases
InitOfUC == Init /\ conv = NewConversation(0, 1)

SpecUC == InitOfUC /\ [][NextUC]_vars

(***************************************************************************)
(* SpecFull: the same calls, made while the store holds a conversation     *)
(* that earlier calls have brought near its history limit.  The calls that *)
(* built it are counted as one call issued.                                *)
(***************************************************************************)
\* the conversation after a Start and further Continue calls, n exchanges
RECURSIVE Exchanged(_)
Exchanged(n) ==
  IF n = 0 THEN NewConversation(GenerateId(1), DefaultMaxHistory)
  ELSE Exchange(Exchanged(n - 1), StartRequest(T_hello, None), 0,
                CONSPIRACY_THEORIST).conv

InitFull ==
  /\ conv = NewConversation(0, 1)
  /\ appended = <<>>
  /\ lastCall = NoCall
  /\ heap = <<Exchanged(StoredExchanges)>>
  /\ conversations = [key \in {Canonical(1)} |-> 1]
  /\ task = [t \in Tasks |-> IdleTask]
  /\ issued = 1
  /\ faults = 0
  /\ lock = 0

SpecFull == InitFull /\ [][NextUC]_vars

(***************************************************************************)
(* SpecVal: the two request validators called on their own.                *)
(***************************************************************************)
NextVal ==
  \/ ValidateStartCall
  \/ ValidateContinueCall

SpecVal == InitOfUC /\ [][NextVal]_vars

SpecId == InitOfUC /\ [][NextId]_vars

(***************************************************************************)
(* SpecStrat: generate_response of each strategy called on contexts, those *)
(* the orchestrator builds from a Message and those holding the text as    *)
(* written.                                                                *)
(***************************************************************************)
StrategyTexts ==
  {<<Tok("vaccine", 7), SP(1), Tok("x", 5), SP(1), Tok("safe", 4)>>,
   <<Tok("whole", 5), SP(1), Tok("Vaccine", 7)>>,
   <<Tok("Climate", 7), SP(1), Tok("x", 3), SP(1), Tok("school", 6)>>,
   <<Tok("school", 6), SP(1), Tok("research", 8)>>,
   <<Tok("said", 4), SP(1), Tok("x", 6)>>,
   <<Tok("food", 4), SP(1), Tok("AI", 2)>>,
   <<Tok("food", 4), SP(1), Tok("market", 6)>>,
   <<Tok("economics", 9), SP(1), Tok("x", 4)>>,
   <<Tok("diet", 4), SP(1), Tok("technology", 10)>>,
   <<Tok("evidence", 8), SP(1), Tok("money", 5)>>,
   T_hello, T_late}

\* DebateContext(topic, user_message, bot_stance, conversation_history) as
\* generate_bot_response builds it for a persona
ContextOf(user_msg_str, personality_type) ==
  [topic |-> ExtractTopic(user_msg_str), user_message |-> user_msg_str,
   bot_stance |-> GetOpposingStance(personality_type),
   conversation_history |-> <<>>]

StrategyContexts(personality_type) ==
  {ContextOf(text, personality_type) : text \in StrategyTexts}
    \cup {ContextOf(MessageStr(NewMessage(USER, text, 0)), personality_type) :
            text \in StrategyTexts}

\* the number of fallback templates of a strategy
NumFallbacks == 3

\* strategy.generate_response(context)
GenerateResponseCall ==
  /\ \E personality_type \in PersonalityType, choice \in 1..NumFallbacks :
       \E context \in StrategyContexts(personality_type) :
         lastCall' =
           [NoCall EXCEPT !.op = "generate_response",
                          !.strategy = Personalities(personality_type),
                          !.user_message = StrArg(context.user_message),
                          !.choice = choice,
                          !.reply = StrategyGenerateResponse(Personalities(personality_type),
                                                             context, choice)]
  /\ UNCHANGED <<conv, appended>>
  /\ UNCHANGED ucVars

NextStrat == GenerateResponseCall

SpecStrat == InitOfUC /\ [][NextStrat]_vars

(***************************************************************************)
(* SpecSeq: a Start and then Continue calls on the conversation it stored, *)
(* each call running to its end before the next one is made.  task[1] is   *)
(* the call made last.                                                     *)
(***************************************************************************)
SeqMessages == {T_hello, T_max, T_short}

\* StartConversationUseCase.execute, from validation to the response; made
\* while no conversation is stored
SeqStartCall ==
  /\ issued < MaxSeqCalls
  /\ DOMAIN conversations = {}
  /\ issued' = issued + 1
  /\ \E message \in SeqMessages, rnd \in PersonalityType, fails \in MayFail :
       LET request == StartRequest(message, None)
           started == [IdleTask EXCEPT !.op = "start", !.req = request,
                                       !.seq = issued + 1]
           invalid == ValidateStartRequest(request)
           conversation == NewConversation(GenerateId(Len(heap) + 1), DefaultMaxHistory)
           x == Exchange(conversation, request, issued + 1, rnd)
           r == RepoSave(conversations, IdStr(x.conv.id), Len(heap) + 1, fails)
           called == [started EXCEPT !.ref = Len(heap) + 1, !.repo_calls = <<"save">>]
       IN  IF invalid # None
           THEN /\ task' = [task EXCEPT ![1] = StartFails(started, invalid)]
                /\ UNCHANGED <<heap, conversations, faults>>
           ELSE IF x.raised # None
           THEN /\ task' = [task EXCEPT ![1] = StartFails(started, x.raised)]
                /\ UNCHANGED <<heap, conversations, faults>>
           ELSE /\ heap' = Append(heap, x.conv)
                /\ conversations' = r.store
                /\ faults' = IF fails THEN faults + 1 ELSE faults
                /\ task' = [task EXCEPT ![1] =
                              IF r.raised # None THEN StartFails(called, r.raised)
                              ELSE [called EXCEPT
                                      !.pc = "done",
                                      !.response_id = IdStr(x.conv.id),
                                      !.response = GetMessagesForApi(x.conv)]]
  /\ UNCHANGED <<domainVars, lock>>

\* ContinueDebateUseCase.execute, from validation to the response, on a
\* stored id or on an id written without hyphens
SeqContinueCall ==
  /\ issued < MaxSeqCalls
  /\ issued' = issued + 1
  /\ \E conversation_id \in DOMAIN conversations \cup {Hex32(1)},
        message \in SeqMessages, rnd \in PersonalityType,
        failsFind \in MayFail, fault \in MayFailUpdate :
       LET request == ContinueRequest(conversation_id, message, None)
           started == [IdleTask EXCEPT !.op = "continue", !.req = request,
                                       !.seq = issued + 1]
           invalid == ValidateContinueRequest(request)
           f == RepoFindById(conversations, heap, IdStr(FromString(conversation_id)),
                             failsFind)
           sought == [started EXCEPT !.repo_calls = <<"find_by_id">>]
       IN  IF invalid # None
           THEN /\ task' = [task EXCEPT ![1] = ContinueFails(started, invalid)]
                /\ UNCHANGED <<heap, conversations, faults>>
           ELSE IF f.raised # None
           THEN /\ task' = [task EXCEPT ![1] = ContinueFails(sought, f.raised)]
                /\ faults' = faults + 1
                /\ UNCHANGED <<heap, conversations>>
           ELSE IF f.ref = 0
           THEN /\ task' = [task EXCEPT ![1] =
                              ContinueFails(sought, "ConversationNotFoundException")]
                /\ UNCHANGED <<heap, conversations, faults>>
           ELSE LET x == Exchange(f.heap[f.ref], request, issued + 1, rnd)
                    found == [sought EXCEPT !.ref = f.ref,
                                            !.found = f.heap[f.ref].messages]
                    objects == [f.heap EXCEPT ![f.ref] = x.conv]
                    failsUpdate == fault # NoFault
                    r == RepoUpdate(conversations, objects, IdStr(x.conv.id), f.ref,
                                    fault)
                    called == [found EXCEPT !.repo_calls = <<"find_by_id", "update">>]
                IN  /\ heap' = objects
                    /\ IF x.raised # None
                       THEN /\ task' = [task EXCEPT ![1] = ContinueFails(found, x.raised)]
                            /\ UNCHANGED <<conversations, faults>>
                       ELSE /\ conversations' = r.store
                            /\ faults' = IF failsUpdate THEN faults + 1 ELSE faults
                            /\ task' = [task EXCEPT ![1] =
                                          IF r.raised # None
                                          THEN ContinueFails(called, r.raised)
                                          ELSE [called EXCEPT
                                                  !.pc = "done",
                                                  !.response_id = IdStr(x.conv.id),
                                                  !.response = GetMessagesForApi(x.conv)]]
  /\ UNCHANGED <<domainVars, lock>>

NextSeq ==
  \/ SeqStartCall
  \/ SeqContinueCall

SpecSeq == InitOfUC /\ [][NextSeq]_vars

(***************************************************************************)
(* SpecRepo: the operations of MemoryConversationRepository called one by  *)
(* one on Conversation objects the caller holds.  lastCall is the call     *)
(* made last: its key, what the store raised inside it (cause), what it    *)
(* raised and what it returned.                                            *)
(***************************************************************************)
\* the caller's objects: two Conversation objects with the same id, one of
\* them with a message, and a Conversation with another id
RepoObjects ==
  <<NewConversation(GenerateId(1), DefaultMaxHistory),
    AddUserMessage(NewConversation(GenerateId(1), DefaultMaxHistory), T_hello, 1).conv,
    NewConversation(GenerateId(2), DefaultMaxHistory)>>

\* the ids find_by_id and delete are called with
RepoIds == {FromString(Canonical(1)), FromString(Canonical(2)), FromString(Hex32(1))}

InitRepo ==
  /\ conv = NewConversation(0, 1)
  /\ appended = <<>>
  /\ lastCall = NoCall
  /\ heap = RepoObjects
  /\ conversations = [k \in {} |-> 0]
  /\ task = [t \in Tasks |-> IdleTask]
  /\ issued = 0
  /\ faults = 0
  /\ lock = 0

RepoCalled(op, key, r, cause, returned) ==
  [NoCall EXCEPT !.op = op, !.raised = r.raised, !.cause = cause,
                 !.returned = returned,
                 !.request = [NoRequest EXCEPT !.conversation_id = key]]

\* await repository.save(conversation)
RepoSaveCall ==
  /\ \E ref \in 1..Len(heap), fails \in MayFail :
       LET key == IdStr(heap[ref].id)
           r == RepoSave(conversations, key, ref, fails)
       IN  /\ conversations' = r.store
           /\ lastCall' = RepoCalled("save", key, r,
                                     StoreStore(conversations, key, ref, fails).raised, 0)
           /\ faults' = IF fails THEN faults + 1 ELSE faults
  /\ UNCHANGED <<lock, conv, appended, heap, task, issued>>

\* await repository.find_by_id(conversation_id)
RepoFindByIdCall ==
  /\ \E conversation_id \in RepoIds, fails \in MayFail :
       LET key == IdStr(conversation_id)
           r == RepoFindById(conversations, heap, key, fails)
       IN  /\ lastCall' = RepoCalled("find_by_id", key, r,
                                     StoreRetrieve(conversations, heap, key, fails).raised,
                                     r.ref)
           /\ faults' = IF fails THEN faults + 1 ELSE faults
  /\ UNCHANGED <<lock, conv, appended, heap, conversations, task, issued>>

\* await repository.update(conversation)
RepoUpdateCall ==
  /\ \E ref \in 1..Len(heap),
        fault \in IF faults < MaxFaults THEN {NoFault} \cup UpdateFaults ELSE {NoFault} :
       LET key == IdStr(heap[ref].id)
           r == RepoUpdate(conversations, heap, key, ref, fault)
           \* store.update is reached when store.retrieve returned an object
           raises == \/ fault \in {"retrieve", "retrieve: not found"}
                     \/ /\ fault \in {"update", "update: not found"}
                        /\ key \in DOMAIN conversations
       IN  /\ conversations' = r.store
           /\ lastCall' = RepoCalled("update", key, r,
                                     IF raises THEN "MemoryRepositoryException" ELSE None, 0)
           /\ faults' = IF raises THEN faults + 1 ELSE faults
  /\ UNCHANGED <<lock, conv, appended, heap, task, issued>>

\* await repository.delete(conversation_id)
RepoDeleteCall ==
  /\ \E conversation_id \in RepoIds, fails \in MayFail :
       LET key == IdStr(conversation_id)
           r == RepoDelete(conversations, key, fails)
       IN  /\ conversations' = r.store
           /\ lastCall' = RepoCalled("delete", key, r,
                                     StoreDelete(conversations, key, fails).raised,
                                     IF r.returned THEN 1 ELSE 0)
           /\ faults' = IF fails THEN faults + 1 ELSE faults
  /\ UNCHANGED <<lock, conv, appended, heap, task, issued>>

\* await repository.count_active_conversations()
RepoCountCall ==
  /\ \E fails \in MayFail :
       LET r == RepoCount(conversations, fails)
       IN  /\ lastCall' = RepoCalled("count_active_conversations", EmptyId, r,
                                     StoreCount(conversations, fails).raised, r.returned)
           /\ faults' = IF fails THEN faults + 1 ELSE faults
  /\ UNCHANGED <<lock, conv, appended, heap, conversations, task, issued>>

NextRepo ==
  \/ RepoSaveCall
  \/ RepoFindByIdCall
  \/ RepoUpdateCall
  \/ RepoDeleteCall
  \/ RepoCountCall

SpecRepo == InitRepo /\ [][NextRepo]_vars

(***************************************************************************)
(* SpecStore: tasks calling the operations of MemoryConversationStore and  *)
(* MemoryConversationRepository.update, followed through the lock.  Every  *)
(* store operation is `async with self._lock:` around a body that does not *)
(* await: a task waits at the lock while another holds it (pc "acquire"),  *)
(* takes it (pc "critical"), and runs the body and leaves the block in one *)
(* step.  A task may be suspended wherever it awaits.                      *)
(***************************************************************************)
StoreOps == {"store", "retrieve", "update", "delete", "count", "clear"}

REPOSITORY_UPDATE == "repository.update"

\* one conversation, stored
StoreObjects == <<NewConversation(GenerateId(1), DefaultMaxHistory)>>

InitStore ==
  /\ conv = NewConversation(0, 1)
  /\ appended = <<>>
  /\ lastCall = NoCall
  /\ heap = StoreObjects
  /\ conversations = [key \in {Canonical(1)} |-> 1]
  /\ task = [t \in Tasks |-> IdleTask]
  /\ issued = 0
  /\ faults = 0
  /\ lock = 0

\* the store operation a call is at: repository.update retrieves, then updates
CurrentStoreOp(call) ==
  IF call.op = REPOSITORY_UPDATE
  THEN IF call.repo_calls = <<>> THEN "retrieve" ELSE "update"
  ELSE call.op

\* a task calls a store operation, or repository.update, on a conversation
OperationCall(t) ==
  /\ FirstFree(t)
  /\ issued < MaxRequests
  /\ issued' = issued + 1
  /\ \E op \in StoreOps \cup {REPOSITORY_UPDATE}, ref \in 1..Len(heap) :
       task' = [task EXCEPT ![t] =
                  [IdleTask EXCEPT !.op = op, !.pc = "acquire", !.ref = ref,
                                   !.seq = issued + 1]]
  /\ UNCHANGED <<domainVars, heap, conversations, faults, lock>>

\* Lock.acquire returns once no task holds the lock
Acquire(t) ==
  /\ task[t].pc = "acquire"
  /\ lock = 0
  /\ lock' = t
  /\ task' = [task EXCEPT ![t].pc = "critical"]
  /\ UNCHANGED <<domainVars, heap, conversations, issued, faults>>

\* faulty variant: the lock is released only when the body has not raised
LockExit_OnSuccessOnly(holder, raised) == IF raised = None THEN 0 ELSE holder

\* Lock.__aexit__: the lock after the block is left, normally or by an
\* exception
LockExit(holder, raised) == 0

\* the body of a store operation: [raised, store, existing]
StoreBody(op, store, objects, key, ref, fails) ==
  CASE op = "store" ->
         LET r == StoreStore(store, key, ref, fails)
         IN  [raised |-> r.raised, store |-> r.store, existing |-> 0]
    [] op = "retrieve" ->
         LET r == StoreRetrieve(store, objects, key, fails)
         IN  [raised |-> r.raised, store |-> store, existing |-> r.ref]
    [] op = "update" ->
         LET r == StoreUpdate(store, key, ref, fails)
         IN  [raised |-> r.raised, store |-> r.store, existing |-> 0]
    [] op = "delete" ->
         LET r == StoreDelete(store, key, fails)
         IN  [raised |-> r.raised, store |-> r.store, existing |-> 0]
    [] op = "count" ->
         [raised |-> StoreCount(store, fails).raised, store |-> store, existing |-> 0]
    [] op = "clear" ->
         LET r == StoreClear(store, fails)
         IN  [raised |-> r.raised, store |-> r.store, existing |-> 0]

\* the except clauses of repository.update
UpdateRaises(exc) ==
  IF exc = "ConversationNotFoundException" THEN exc
  ELSE IF exc = "MemoryRepositoryException: not found"
    THEN "ConversationNotFoundException"
  ELSE "RepositoryException"

\* the call ends: what it raised inside (cause) and what its caller gets
Ended(call, cause) ==
  [call EXCEPT !.pc = "done", !.cause = cause,
               !.raised = IF cause = None THEN None
                          ELSE IF call.op = REPOSITORY_UPDATE THEN UpdateRaises(cause)
                          ELSE "MemoryRepositoryException"]

\* the task runs the body of its store operation and leaves the block; a
\* repository.update that has found the conversation goes on to the lock
\* again, any other call ends
Critical(t) ==
  /\ task[t].pc = "critical"
  /\ \E fails \in MayFail :
       LET cur == CurrentStoreOp(task[t])
           key == IdStr(heap[task[t].ref].id)
           r == StoreBody(cur, conversations, heap, key, task[t].ref, fails)
           called == [task[t] EXCEPT !.repo_calls = Append(@, cur)]
       IN  /\ conversations' = r.store
           /\ lock' = LockExit(lock, r.raised)
           /\ faults' = IF fails THEN faults + 1 ELSE faults
           /\ task' = [task EXCEPT ![t] =
                IF r.raised # None THEN Ended(called, r.raised)
                ELSE IF task[t].op = REPOSITORY_UPDATE /\ cur = "retrieve"
                THEN IF r.existing = 0
                     THEN Ended(called, "ConversationNotFoundException")
                     ELSE [called EXCEPT !.pc = "acquire", !.existing = r.existing]
                ELSE Ended(called, None)]
  /\ UNCHANGED <<domainVars, heap, issued>>

NextStore ==
  \E t \in Tasks :
    \/ OperationCall(t)
    \/ Acquire(t)
    \/ Critical(t)

SpecStore == InitStore /\ [][NextStore]_vars

\* the event loop runs every task that is ready, and a released lock goes
\* to a task waiting for it
SpecStoreFair ==
  SpecStore /\ \A t \in Tasks : WF_vars(Acquire(t)) /\ WF_vars(Critical(t))

(***************************************************************************)
(* Properties.                                                             *)
(***************************************************************************)
Min(a, b) == IF a <= b THEN a ELSE b

Unknown(v) == Truthy(v) /\ ~IsPersonalityValue(v)

IsGenerate == lastCall.op = "generate_bot_response"

\* the text of the user's message handed to generate_bot_response
ArgText(user_message) ==
  IF user_message.kind = "none" \/ user_message.text = <<>>
  THEN <<Tok("general", 7), SP(1), Tok("discussion", 10)>>
  ELSE user_message.text

\* C1: once bot_personality_type holds a non-empty value, no call of
\* add_user_message, add_bot_message or generate_bot_response (the calls a
\* Continue is made of) changes it, whatever arguments are passed.
C1_PersonaNeverChanges ==
  [][Truthy(conv.bot_personality_type)
       => conv'.bot_personality_type = conv.bot_personality_type]_vars

\* a generate_bot_response call on a committed conversation that was handed
\* another known persona as preferred_personality, after an append
C1_Witness ==
  /\ IsGenerate
  /\ IsPersonalityValue(lastCall.pre_personality)
  /\ IsPersonalityValue(lastCall.preferred)
  /\ lastCall.preferred # lastCall.pre_personality
  /\ conv.bot_personality_type = lastCall.pre_personality
  /\ Len(appended) >= 1

\* C2: a generate_bot_response call on a conversation whose persona was
\* committed by an earlier call produces its reply with the strategy of that
\* persona, whatever preferred_personality and message are passed.
C2_ReplyByCommittedPersona ==
  (IsGenerate /\ IsPersonalityValue(lastCall.pre_personality))
    => /\ lastCall.raised = None
       /\ lastCall.personality_type = lastCall.pre_personality
       /\ lastCall.strategy = Personalities(lastCall.pre_personality)

\* committed conspiracy theorist, preferred populist, and a message with a
\* scientist keyword: the reply is still the conspiracy theorist's
C2_Witness ==
  /\ IsGenerate
  /\ lastCall.pre_personality = CONSPIRACY_THEORIST
  /\ lastCall.preferred = POPULIST
  /\ lastCall.user_message = StrArg(T_climate)
  /\ lastCall.strategy = "ConspiracyTheoristStrategy"

\* C3: after every add_user_message / add_bot_message call, in any role
\* order, the conversation holds at most 2 * max_history messages.
C3_HistoryBounded == Len(conv.messages) <= 2 * conv.max_history

\* more messages were appended than fit, with max_history = 2
C3_Witness ==
  /\ conv.max_history = 2
  /\ Len(appended) > 2 * conv.max_history
  /\ Len(conv.messages) = 2 * conv.max_history

C5_TopicDerivedOnce ==
  [][conv.topic # None
       => conv'.topic = conv.topic /\ conv'.bot_position = conv.bot_position]_vars

\* the first message (a vaccine message) was trimmed away, a later user
\* message has another topic, and the derived topic is still the first one
C5_Witness ==
  /\ Len(appended) > 2 * conv.max_history
  /\ appended[1].role = USER
  /\ conv.topic = "vaccines and public health"
  /\ conv.bot_position = "anti-vaccination and natural immunity advocate"
  /\ \E i \in 2..Len(appended) :
       /\ appended[i].role = USER
       /\ IdentifyTopicKeywords(appended[i].content) # conv.topic

\* C6 (as claimed): whenever at least one user message has been appended,
\* topic and bot_position are set.
C6_TopicSetAfterUserMessage ==
  (\E i \in 1..Len(appended) : appended[i].role = USER)
    => conv.topic # None /\ conv.bot_position # None

\* the persona the keyword groups assign to a message text; None without a
\* keyword
KeywordPersona(text) ==
  IF ContainsAny(Lower(text), ConspiracyWords) THEN CONSPIRACY_THEORIST
  ELSE IF ContainsAny(Lower(text), ScientistWords) THEN SKEPTICAL_SCIENTIST
  ELSE IF ContainsAny(Lower(text), PopulistWords) THEN POPULIST
  ELSE None

\* C7 (as claimed): without a committed persona the persona is the known
\* preferred one, else the one whose keyword occurs in the user's message,
\* else any persona.
C7_ResolutionOrder ==
  (IsGenerate /\ ~Truthy(lastCall.pre_personality))
    => IF IsPersonalityValue(lastCall.preferred)
         THEN lastCall.personality_type = lastCall.preferred
       ELSE IF KeywordPersona(ArgText(lastCall.user_message)) # None
         THEN lastCall.personality_type = KeywordPersona(ArgText(lastCall.user_message))
       ELSE lastCall.personality_type \in PersonalityType

\* C8: a generate_bot_response call on a conversation without a stored
\* persona leaves bot_personality_type set to the persona whose strategy
\* produced the returned text.
C8_CommitsResolvedPersona ==
  (IsGenerate /\ ~Truthy(lastCall.pre_personality))
    => /\ lastCall.raised = None
       /\ IsPersonalityValue(conv.bot_personality_type)
       /\ lastCall.strategy = Personalities(conv.bot_personality_type)

\* first call with preferred populist on a vaccine message
C8_Witness ==
  /\ IsGenerate
  /\ lastCall.pre_personality = None
  /\ lastCall.preferred = POPULIST
  /\ lastCall.user_message = MessageArg(NewMessage(USER, T_vaccine, 0))
  /\ conv.bot_personality_type = POPULIST
  /\ lastCall.strategy = "PopulistStrategy"

\* C9: an unknown persona string, stored or preferred, never makes
\* generate_bot_response raise: a reply is returned, and where the unknown
\* string is the one consulted the persona comes from keyword / random
\* selection.
C9_UnknownPersonaFallsThrough ==
  (IsGenerate /\ (Unknown(lastCall.pre_personality) \/ Unknown(lastCall.preferred)))
    => /\ lastCall.raised = None
       /\ lastCall.reply # <<>>
       /\ lastCall.personality_type \in PersonalityType
       /\ (Unknown(lastCall.pre_personality)
             \/ (~Truthy(lastCall.pre_personality) /\ Unknown(lastCall.preferred)))
            => lastCall.personality_type
                 = SelectPersonalityByTopic(Lower(UserMsgStr(lastCall.user_message)),
                                            lastCall.rnd)

\* unknown stored persona and unknown preferred persona in the same call
C9_Witness ==
  /\ IsGenerate
  /\ lastCall.pre_personality = "retired_persona"
  /\ lastCall.preferred = "flat_earther"
  /\ lastCall.raised = None
  /\ lastCall.reply # <<>>

\* the inputs the claim calls invalid
StartInputInvalid(request) ==
  \/ request.message = <<>>
  \/ Strip(request.message) = <<>>
  \/ TextLen(Strip(request.message)) < MinMessageLen
  \/ TextLen(Strip(request.message)) > MaxContentLen
  \/ Unknown(request.preferred_personality)

\* C10 (as claimed): a Start call with invalid input fails with
\* ValidationException, creates no Conversation, makes no repository call
\* and leaves the repository as it was.
C10_InvalidStartRejected ==
  [][\A t \in Tasks :
       (task'[t].seq # task[t].seq /\ task'[t].op = "start"
          /\ StartInputInvalid(task'[t].req))
         => /\ task'[t].pc = "done"
            /\ task'[t].raised = "ValidationException"
            /\ task'[t].repo_calls = <<>>
            /\ heap' = heap
            /\ conversations' = conversations]_vars

\* the id strings uuid.UUID reads as a uuid
WellFormedId(conversation_id) ==
  conversation_id.form \in {"canonical", "hex32", "hex31 "}

\* the trimmed message has between 5 and 2000 characters
InBounds(message) ==
  /\ MinMessageLen <= TextLen(Strip(message))
  /\ TextLen(Strip(message)) <= MaxContentLen

LastCallOf(call) ==
  IF call.repo_calls = <<>> THEN None ELSE call.repo_calls[Len(call.repo_calls)]

\* C11: a Continue call that fails with ValidationException has called
\* neither find_by_id nor update, and a Continue call that is about to call
\* or has called the repository has a well-formed id, a message within the
\* bounds and no unknown persona: validation completes before any access.
C11_ValidationBeforeRepository ==
  \A t \in Tasks :
    task[t].op = "continue"
      => /\ task[t].raised = "ValidationException" => task[t].repo_calls = <<>>
         /\ (task[t].pc \in {"find", "update"} \/ task[t].repo_calls # <<>>)
              => /\ WellFormedId(task[t].req.conversation_id)
                 /\ InBounds(task[t].req.message)
                 /\ ~Unknown(task[t].req.preferred_personality)

\* a Continue on a stored conversation failed on its short message without
\* any repository call
C11_Witness ==
  \E t \in Tasks :
    /\ task[t].op = "continue"
    /\ task[t].pc = "done"
    /\ task[t].req.conversation_id \in DOMAIN conversations
    /\ task[t].req.message = T_short
    /\ task[t].raised = "ValidationException"
    /\ task[t].repo_calls = <<>>

\* C12: a Continue call with a well-formed id, a message within the bounds
\* and no preferred persona reaches find_by_id, and when the id is not in
\* the repository (and the lookup itself does not fail) the call ends with
\* ConversationNotFoundException after that single repository call, with no
\* Conversation and no repository entry changed.
C12_UnknownIdNotFound ==
  [][\A t \in Tasks :
       /\ (/\ task'[t].seq # task[t].seq
           /\ task'[t].op = "continue"
           /\ WellFormedId(task'[t].req.conversation_id)
           /\ InBounds(task'[t].req.message)
           /\ ~Truthy(task'[t].req.preferred_personality))
            => task'[t].pc = "find" /\ task'[t].repo_calls = <<>>
       /\ (/\ task[t].pc = "find" /\ task'[t].pc # "find"
           /\ task[t].req.conversation_id \notin DOMAIN conversations
           /\ faults' = faults)
            => /\ task'[t].pc = "done"
               /\ task'[t].raised = "ConversationNotFoundException"
               /\ task'[t].repo_calls = <<"find_by_id">>
               /\ task'[t].response = <<>>
               /\ heap' = heap
               /\ conversations' = conversations]_vars

\* a Continue on the id of no stored conversation, while another one is
\* stored, ended with ConversationNotFoundException
C12_Witness ==
  \E t \in Tasks :
    /\ task[t].op = "continue"
    /\ task[t].pc = "done"
    /\ task[t].req.conversation_id = Canonical(2)
    /\ DOMAIN conversations = {Canonical(1)}
    /\ task[t].raised = "ConversationNotFoundException"
    /\ task[t].repo_calls = <<"find_by_id">>

\* C13 (as claimed): a Continue call whose id string is not in the canonical
\* 36-character hyphenated form ends with ValidationException without
\* reaching the lookup.
C13_NonCanonicalIsValidation ==
  \A t \in Tasks :
    (task[t].op = "continue" /\ task[t].req.conversation_id.form # "canonical")
      => /\ task[t].pc = "done"
         /\ task[t].raised = "ValidationException"
         /\ task[t].repo_calls = <<>>

\* C14 (as claimed): a Start or Continue call that names a preferred persona,
\* with valid id and message, fails with ValidationException when the
\* persona is unknown and gets past validation when it is known: it returns
\* a response or fails at a repository call.
C14_PersonaValidated ==
  \A t \in Tasks :
    (/\ task[t].pc = "done"
     /\ Truthy(task[t].req.preferred_personality)
     /\ InBounds(task[t].req.message)
     /\ task[t].op = "continue" => WellFormedId(task[t].req.conversation_id))
      => IF IsPersonalityValue(task[t].req.preferred_personality)
         THEN task[t].raised = None \/ task[t].repo_calls # <<>>
         ELSE task[t].raised = "ValidationException"

\* the last call was one of the two validators
IsValidate ==
  lastCall.op \in {"StartConversation._validate_request",
                   "ContinueDebate._validate_request"}

\* C15: the validator of Start, and the validator of Continue given a
\* well-formed id, raises ValidationException exactly when the trimmed length
\* of the message is outside 5..2000; within the bounds, and with no
\* preferred persona, it raises nothing and the Message entity accepts the
\* message as well.
C15_MessageLengthBounds ==
  (/\ IsValidate
   /\ lastCall.op = "ContinueDebate._validate_request"
        => WellFormedId(lastCall.request.conversation_id))
    => /\ lastCall.raised = "ValidationException" <=> ~InBounds(lastCall.request.message)
       /\ (InBounds(lastCall.request.message)
             /\ ~Truthy(lastCall.request.preferred_personality))
            => /\ lastCall.raised = None
               /\ ~MessageInvalid(lastCall.request.message)

\* the validator of Start accepted a message of five characters between
\* spaces
C15_Witness ==
  /\ lastCall.op = "StartConversation._validate_request"
  /\ lastCall.request.message = T_five
  /\ TextLen(T_five) = 8 /\ TextLen(Strip(T_five)) = 5
  /\ lastCall.raised = None

\* C16 (as claimed): after a Continue call whose repository update failed,
\* the conversation stored under its id has the messages it had when the
\* call found it.
C16_FailedUpdateDiscarded ==
  \A t \in Tasks :
    (/\ task[t].op = "continue" /\ task[t].pc = "done"
     /\ LastCallOf(task[t]) = "update"
     /\ task[t].raised # None
     /\ task[t].req.conversation_id \in DOMAIN conversations)
      => heap[conversations[task[t].req.conversation_id]].messages = task[t].found

\* a successful Continue call that has returned
ContinueSucceeded(t) ==
  task[t].op = "continue" /\ task[t].pc = "done" /\ task[t].raised = None

\* messages holds the user message of this call directly followed by the
\* reply made for it (the two carry the call's number as their timestamp)
HasPairOf(messages, call) ==
  \E i \in 1..(Len(messages) - 1) :
    /\ messages[i] = NewMessage(USER, call.req.message, call.seq)
    /\ messages[i + 1].role = BOT
    /\ messages[i + 1].timestamp = call.seq

\* C17: when two Continue calls on the same conversation id have both
\* succeeded, however their repository calls interleaved, the conversation
\* stored under that id holds the user message and the reply of each of
\* them, unless the history is full and has been trimmed.
C17_NoLostUpdate ==
  \A t, u \in Tasks :
    (/\ t # u /\ ContinueSucceeded(t) /\ ContinueSucceeded(u)
     /\ task[t].req.conversation_id = task[u].req.conversation_id)
      => LET stored == heap[conversations[task[t].req.conversation_id]]
         IN  \/ Len(stored.messages) = 2 * stored.max_history
             \/ /\ HasPairOf(stored.messages, task[t])
                /\ HasPairOf(stored.messages, task[u])

\* two Continue calls that held the same conversation at the same time (the
\* second found it before the first had updated it) have both succeeded
C17_Witness ==
  \E t, u \in Tasks :
    /\ t # u /\ ContinueSucceeded(t) /\ ContinueSucceeded(u)
    /\ task[t].req.conversation_id = task[u].req.conversation_id
    /\ task[t].overlap /\ task[u].overlap
    /\ task[t].req.message # task[u].req.message
    /\ Len(heap[conversations[task[t].req.conversation_id]].messages) = 6

\* C18 (as claimed): two Continue calls that are both between their
\* find_by_id and the completion of their update never hold the same
\* Conversation object.
C18_LoadedObjectPrivate ==
  \A t, u \in Tasks :
    (/\ t # u
     /\ task[t].op = "continue" /\ task[t].pc = "update"
     /\ task[u].op = "continue" /\ task[u].pc = "update")
      => task[t].ref # task[u].ref

\* the reply text of the strategy of a stored persona
ReplyOf(personality_type) == GenerateResponse(Personalities(personality_type), <<>>)

\* C19: a successful Start returns the id of no other conversation and
\* exactly two messages, the trimmed user message and the reply of the
\* persona committed; a successful Continue that shared its conversation
\* with no other call returns the id it was given and the history it found
\* followed by its trimmed user message and the reply of that persona.
C19_ResponseOfSuccess ==
  \A t \in Tasks :
    (task[t].pc = "done" /\ task[t].raised = None /\ task[t].op # "none")
      => LET call == task[t]
             conversation == heap[call.ref]
             n == Len(call.response)
             EndsWithOwnPair ==
               /\ n >= 2
               /\ call.response[n - 1] = [role |-> USER, message |-> Strip(call.req.message)]
               /\ call.response[n] = [role |-> BOT,
                                      message |-> ReplyOf(conversation.bot_personality_type)]
         IN  /\ call.op = "start"
                  => /\ EndsWithOwnPair
                     /\ n = 2
                     /\ call.response_id.form = "canonical"
                     /\ \A r \in 1..Len(heap) :
                          r # call.ref => IdStr(heap[r].id) # call.response_id
             /\ (call.op = "continue" /\ ~call.overlap)
                  => /\ EndsWithOwnPair
                     /\ call.response_id = call.req.conversation_id
                     /\ n = Min(Len(call.found) + 2, 2 * conversation.max_history)
                     /\ Len(call.found) + 2 <= 2 * conversation.max_history
                          => \A i \in 1..Len(call.found) :
                               call.response[i] = MessageToDict(call.found[i])

\* a Start has returned two messages, and a Continue on the conversation it
\* created has returned four
C19_Witness ==
  \E t, u \in Tasks :
    /\ task[t].op = "start" /\ task[t].pc = "done" /\ task[t].raised = None
    /\ Len(task[t].response) = 2
    /\ task[t].req.message = T_five
    /\ ContinueSucceeded(u) /\ ~task[u].overlap
    /\ task[u].response_id = task[t].response_id
    /\ Len(task[u].response) = 4
    /\ task[u].response[3].message = Strip(task[u].req.message)

\* the exceptions execute lets through as they are
PassedThrough(op) ==
  IF op = "start" THEN {"ValidationException"}
  ELSE {"ValidationException", "ConversationNotFoundException"}

\* C20: a Start call fails only with ValidationException or UseCaseException
\* and a Continue call only with these or ConversationNotFoundException; any
\* other exception raised inside execute leaves it as a UseCaseException
\* carrying the name of the use case.
C20_FailuresWrapped ==
  \A t \in Tasks :
    task[t].pc = "done"
      => LET call == task[t]
         IN  /\ call.raised # None <=> call.cause # None
             /\ call.raised \in PassedThrough(call.op) \cup {None, "UseCaseException"}
             /\ call.cause \in PassedThrough(call.op)
                  => call.raised = call.cause /\ call.use_case = None
             /\ (call.cause # None /\ call.cause \notin PassedThrough(call.op))
                  => /\ call.raised = "UseCaseException"
                     /\ call.use_case = IF call.op = "start" THEN "StartConversation"
                                        ELSE "ContinueDebate"

\* a Start whose save failed and a Continue that named a persona have both
\* ended with a UseCaseException
C20_Witness ==
  \E t, u \in Tasks :
    /\ task[t].op = "start" /\ task[t].pc = "done"
    /\ task[t].cause = "RepositoryException"
    /\ task[t].raised = "UseCaseException"
    /\ task[t].use_case = "StartConversation"
    /\ task[u].op = "continue" /\ task[u].pc = "done"
    /\ task[u].cause = "AttributeError"
    /\ task[u].raised = "UseCaseException"
    /\ task[u].use_case = "ContinueDebate"

\* the roles alternate user, bot, user, bot ... from the first entry on
Alternates(response) ==
  \A i \in 1..Len(response) :
    response[i].role = IF i % 2 = 1 THEN USER ELSE BOT

\* C21: every response of a successful Start or Continue, in a run of calls
\* made one after the other on one conversation, has an even number of
\* entries, at most 2 * max_history of them, alternating user, bot from a
\* user entry on; also once older messages have been trimmed.
C21_ResponseAlternates ==
  (task[1].pc = "done" /\ task[1].raised = None /\ task[1].op # "none")
    => /\ Len(task[1].response) % 2 = 0
       /\ Len(task[1].response) >= 2
       /\ Len(task[1].response) <= 2 * heap[task[1].ref].max_history
       /\ Alternates(task[1].response)

\* a Continue found a full history of ten messages, so that its exchange
\* trimmed the oldest pair, and returned ten messages
C21_Witness ==
  /\ ContinueSucceeded(1)
  /\ Len(task[1].found) = 2 * DefaultMaxHistory
  /\ Len(task[1].response) = 2 * DefaultMaxHistory
  /\ task[1].response[1].role = USER
  /\ task[1].response[1] # MessageToDict(task[1].found[1])

\* the last call was add_user_message or add_bot_message
IsAdd(call) == call.op \in {"add_user_message", "add_bot_message"}

\* the text is empty, whitespace only, or longer than 2000 characters once
\* trimmed
TextRejected(text) ==
  \/ TextLen(text) = 0
  \/ TextLen(Strip(text)) = 0
  \/ TextLen(Strip(text)) > 2000

\* the failed call left messages, topic and bot_position as they were
LeftUnchanged ==
  /\ conv'.messages = conv.messages
  /\ conv'.topic = conv.topic
  /\ conv'.bot_position = conv.bot_position

\* C22 (as claimed): add_user_message and add_bot_message called with a text
\* that is empty, whitespace only or longer than 2000 characters once trimmed
\* fail with InvalidMessageException and leave messages, topic and
\* bot_position unchanged.
C22_InvalidMessageRaised ==
  [][(IsAdd(lastCall') /\ TextRejected(lastCall'.user_message.text))
       => lastCall'.raised = "InvalidMessageException" /\ LeftUnchanged]_vars

\* C22 (amended): such a call fails with ValueError and leaves messages,
\* topic and bot_position unchanged; a call with any other text does not
\* fail.
C22_InvalidTextRejected ==
  [][IsAdd(lastCall')
       => IF TextRejected(lastCall'.user_message.text)
          THEN lastCall'.raised = "ValueError" /\ LeftUnchanged
          ELSE lastCall'.raised = None]_vars

\* add_user_message failed on a whitespace-only text as the first call on a
\* conversation, which still has no message and no topic
C22_Witness ==
  /\ lastCall.op = "add_user_message"
  /\ lastCall.user_message.text = T_blank
  /\ lastCall.raised = "ValueError"
  /\ lastCall.pre_len = 0
  /\ conv.messages = <<>> /\ conv.topic = None /\ conv.bot_position = None

\* the text has one of the words, in any letter case
Mentions(text, words) == \E i \in 1..Len(text) : LowerWord(text[i].w) \in words

\* C23 (as claimed): with no committed persona and no known preferred
\* persona, a message with a vaccine / health word gets the conspiracy
\* theorist, otherwise one with a climate / environment word the skeptical
\* scientist, otherwise one with an economic / education / immigration word
\* the populist, and only a message with none of these words gets whatever
\* random.choice returns.
C23_KeywordSelection ==
  (IsGenerate /\ ~Truthy(lastCall.pre_personality)
     /\ ~IsPersonalityValue(lastCall.preferred))
    => LET text == ArgText(lastCall.user_message)
       IN  lastCall.personality_type =
             IF Mentions(text, ConspiracyWords) THEN CONSPIRACY_THEORIST
             ELSE IF Mentions(text, ScientistWords) THEN SKEPTICAL_SCIENTIST
             ELSE IF Mentions(text, PopulistWords) THEN POPULIST
             ELSE lastCall.rnd

\* C24: repository.update of a conversation whose id is not stored ends
\* with ConversationNotFoundException (with RepositoryException when the
\* store itself fails) and stores nothing: the stored ids and the objects
\* stored under them are as before.
C24_UpdateOfUnknownId ==
  [][(lastCall'.op = "update"
        /\ lastCall'.request.conversation_id \notin DOMAIN conversations)
       => /\ lastCall'.cause = None
               => lastCall'.raised = "ConversationNotFoundException"
          /\ lastCall'.raised \in {"ConversationNotFoundException", "RepositoryException"}
          /\ conversations' = conversations
          /\ heap' = heap]_vars

\* update of the conversation with the second id failed with
\* ConversationNotFoundException while only the first id is stored
C24_Witness ==
  /\ lastCall.op = "update"
  /\ lastCall.request.conversation_id = Canonical(2)
  /\ lastCall.raised = "ConversationNotFoundException"
  /\ lastCall.cause = None
  /\ DOMAIN conversations = {Canonical(1)}

\* the operations of the repository the claim names
RepositoryOps == {"save", "find_by_id", "update", "delete", "count_active_conversations"}

\* C25: a repository operation raises nothing, RepositoryException or, for
\* update only, ConversationNotFoundException; when the store raised inside
\* the operation the operation raises one of these, never the store's own
\* MemoryRepositoryException.
C25_FailuresAreRepositoryExceptions ==
  lastCall.op \in RepositoryOps
    => /\ lastCall.raised \in {None, "RepositoryException"}
                               \cup (IF lastCall.op = "update"
                                     THEN {"ConversationNotFoundException"} ELSE {})
       /\ lastCall.cause # None
            => lastCall.raised \in {"RepositoryException"}
                                    \cup (IF lastCall.op = "update"
                                          THEN {"ConversationNotFoundException"} ELSE {})

\* the store raised MemoryRepositoryException inside delete, and delete
\* raised RepositoryException, leaving the stored conversation in place
C25_Witness ==
  /\ lastCall.op = "delete"
  /\ lastCall.cause = "MemoryRepositoryException"
  /\ lastCall.raised = "RepositoryException"
  /\ lastCall.request.conversation_id \in DOMAIN conversations

\* the last n entries of a sequence, all of them when it has fewer
LastOf(messages, n) ==
  SubSeq(messages, Len(messages) - Min(n, Len(messages)) + 1, Len(messages))

\* C26 (as claimed): get_recent_messages(limit) with a limit of zero or more
\* returns the last min(limit, len(messages)) stored messages in stored
\* order, and without a limit the last min(max_history * 2, len(messages)).
C26_RecentMessagesSuffix ==
  lastCall.op = "get_recent_messages"
    => /\ (lastCall.limit.given /\ lastCall.limit.n >= 0)
            => lastCall.messages = LastOf(conv.messages, lastCall.limit.n)
       /\ ~lastCall.limit.given
            => lastCall.messages = LastOf(conv.messages, conv.max_history * 2)

\* the number of stored user messages directly followed by a bot message
CompletePairs(messages) ==
  Cardinality({i \in 1..(Len(messages) - 1) :
                 messages[i].role = USER /\ messages[i + 1].role = BOT})

\* the number of stored messages of a role
CountOf(messages, role) ==
  Cardinality({i \in 1..Len(messages) : messages[i].role = role})

\* C27 (as claimed): in every state of a Conversation exchange_count is the
\* smaller of the numbers of stored user and bot messages, is the number of
\* complete user-then-bot pairs of the stored history, and is at most
\* max_history.
C27_ExchangeCountIsPairs ==
  /\ ExchangeCount(conv) = Min(CountOf(conv.messages, USER), CountOf(conv.messages, BOT))
  /\ ExchangeCount(conv) = CompletePairs(conv.messages)
  /\ ExchangeCount(conv) <= conv.max_history

\* C28: from_string called on the string of a generated id does not raise
\* and returns an id equal to the generated one.
C28_IdRoundTrip ==
  \A n \in 1..issued :
    (lastCall.op = "from_string"
       /\ lastCall.request.conversation_id = IdStr(GenerateId(n)))
      => lastCall.raised = None /\ lastCall.id = GenerateId(n)

\* from_string was called on the string of the second id generated and
\* returned that id
C28_Witness ==
  /\ issued >= 2
  /\ lastCall.op = "from_string"
  /\ lastCall.request.conversation_id = Canonical(2)
  /\ lastCall.raised = None
  /\ lastCall.id = [value |-> Canonical(2)]

\* the number of repository writes among the calls made
Writes(calls) == Cardinality({i \in 1..Len(calls) : calls[i] \in {"save", "update"}})

\* the conversation holds the user message of the call followed by a reply
\* appended in the same call
HoldsExchangeOf(conversation, call) ==
  \E i \in 1..(Len(conversation.messages) - 1) :
    /\ conversation.messages[i] = NewMessage(USER, call.req.message, call.seq)
    /\ conversation.messages[i + 1].role = BOT
    /\ conversation.messages[i + 1].timestamp = call.seq

\* C29: a successful Start has invoked save exactly once and a successful
\* Continue update exactly once, as its last repository call; when the write
\* is invoked the conversation already holds the user message and the reply
\* of the call and a committed persona, and the write appends nothing; a
\* step that appends to a conversation writes nothing to the repository.
C29_SingleWriteAfterExchange ==
  [][/\ \A t \in Tasks :
          /\ (task'[t].seq = task[t].seq
                 /\ Writes(task'[t].repo_calls) > Writes(task[t].repo_calls))
               => /\ Writes(task[t].repo_calls) = 0
                  /\ HoldsExchangeOf(heap[task[t].ref], task[t])
                  /\ heap[task[t].ref].bot_personality_type # None
                  /\ heap' = heap
          /\ (task'[t].pc = "done" /\ task[t].pc # "done" /\ task'[t].raised = None)
               => LET calls == task'[t].repo_calls
                  IN  /\ Writes(calls) = 1
                      /\ calls = IF task'[t].op = "start" THEN <<"save">>
                                 ELSE <<"find_by_id", "update">>
     /\ heap' # heap => conversations' = conversations]_vars

\* a Start and a Continue have both succeeded, each with one write
C29_Witness ==
  \E t, u \in Tasks :
    /\ task[t].op = "start" /\ task[t].pc = "done" /\ task[t].raised = None
    /\ task[t].repo_calls = <<"save">>
    /\ task[u].op = "continue" /\ task[u].pc = "done" /\ task[u].raised = None
    /\ task[u].repo_calls = <<"find_by_id", "update">>
    /\ HoldsExchangeOf(heap[task[u].ref], task[u])
    /\ HoldsExchangeOf(heap[task[t].ref], task[t])

\* the messages are user messages each followed at once by the bot reply
\* appended in the same call
AdjacentPairs(messages) ==
  /\ Len(messages) % 2 = 0
  /\ \A i \in 1..Len(messages) :
       IF i % 2 = 1
       THEN messages[i].role = USER
       ELSE /\ messages[i].role = BOT
            /\ messages[i].timestamp = messages[i - 1].timestamp

\* C30: whichever calls are suspended at a repository call, every
\* conversation in the store is made of user messages each followed at once
\* by the bot reply of the same call.
C30_StoredConversationsArePairs ==
  \A key \in DOMAIN conversations :
    AdjacentPairs(heap[conversations[key]].messages)

\* two Continue calls are suspended at update on a stored conversation that
\* holds the exchanges of both
C30_Witness ==
  \E t, u \in Tasks, key \in DOMAIN conversations :
    /\ t # u
    /\ task[t].pc = "update" /\ task[u].pc = "update"
    /\ task[t].ref = conversations[key] /\ task[u].ref = conversations[key]
    /\ Len(heap[conversations[key]].messages) = 6
    /\ HoldsExchangeOf(heap[conversations[key]], task[t])
    /\ HoldsExchangeOf(heap[conversations[key]], task[u])

\* C31: a generate_bot_response call leaves the messages, topic,
\* bot_position, id and max_history of the conversation and the repository
\* as they were; it changes bot_personality_type only when none was stored
\* before the call.
C31_GenerateFrame ==
  [][lastCall'.op = "generate_bot_response"
       => /\ conv'.messages = conv.messages
          /\ conv'.topic = conv.topic
          /\ conv'.bot_position = conv.bot_position
          /\ conv'.id = conv.id
          /\ conv'.max_history = conv.max_history
          /\ heap' = heap /\ conversations' = conversations
          /\ Truthy(conv.bot_personality_type) => conv' = conv]_vars

\* a call committed a persona on a conversation that holds messages, a
\* topic and a position
C31_Witness ==
  /\ IsGenerate
  /\ lastCall.raised = None
  /\ ~Truthy(lastCall.pre_personality)
  /\ IsPersonalityValue(conv.bot_personality_type)
  /\ Len(conv.messages) >= 2
  /\ conv.topic # None
  /\ conv.bot_position # None

\* the branches of a strategy in priority order, the topics of the persona
\* before the categories for any topic: the keywords of each and the
\* paragraphs it returns
Priority(strategy) ==
  CASE strategy = "ConspiracyTheoristStrategy" ->
         <<[words |-> ConspiracyKeywords.vaccine,
            paragraphs |-> {"conspiracy/vaccine/safe", "conspiracy/vaccine/who",
                            "conspiracy/vaccine"}],
           [words |-> ConspiracyKeywords.climate,
            paragraphs |-> {"conspiracy/climate/human", "conspiracy/climate"}],
           [words |-> ConspiracyKeywords.technology, paragraphs |-> {"conspiracy/technology"}],
           [words |-> ConspiracyKeywords.food, paragraphs |-> {"conspiracy/food"}],
           [words |-> ConspiracyKeywords.education, paragraphs |-> {"conspiracy/education"}],
           [words |-> ConspiracyKeywords.sports, paragraphs |-> {"conspiracy/sports"}],
           [words |-> ConspiracyKeywords.money, paragraphs |-> {"conspiracy/money"}],
           [words |-> ConspiracyKeywords.science, paragraphs |-> {"conspiracy/science"}]>>
    [] strategy = "SkepticalScientistStrategy" ->
         <<[words |-> ScientistKeywords.climate,
            paragraphs |-> {"scientist/climate/human", "scientist/climate/consensus",
                            "scientist/climate"}],
           [words |-> ScientistKeywords.vaccine,
            paragraphs |-> {"scientist/vaccine/safe", "scientist/vaccine"}],
           [words |-> ScientistKeywords.psychology, paragraphs |-> {"scientist/psychology"}],
           [words |-> ScientistKeywords.nutrition, paragraphs |-> {"scientist/nutrition"}],
           [words |-> ScientistKeywords.technology, paragraphs |-> {"scientist/technology"}],
           [words |-> ScientistKeywords.exercise, paragraphs |-> {"scientist/exercise"}],
           [words |-> ScientistKeywords.economics, paragraphs |-> {"scientist/economics"}],
           [words |-> ScientistKeywords.education, paragraphs |-> {"scientist/education"}]>>
    [] strategy = "PopulistStrategy" ->
         <<[words |-> PopulistKeywords.economic, paragraphs |-> {"populist/economic"}],
           [words |-> PopulistKeywords.education, paragraphs |-> {"populist/education"}],
           [words |-> PopulistKeywords.immigration, paragraphs |-> {"populist/immigration"}],
           [words |-> PopulistKeywords.health, paragraphs |-> {"populist/health"}],
           [words |-> PopulistKeywords.technology, paragraphs |-> {"populist/technology"}],
           [words |-> PopulistKeywords.sports, paragraphs |-> {"populist/sports"}],
           [words |-> PopulistKeywords.food, paragraphs |-> {"populist/food"}],
           [words |-> PopulistKeywords.cars, paragraphs |-> {"populist/cars"}],
           [words |-> PopulistKeywords.environment, paragraphs |-> {"populist/environment"}],
           [words |-> PopulistKeywords.social, paragraphs |-> {"populist/social"}]>>

\* the name of the generic templates of a strategy
GenericOf(strategy) ==
  CASE strategy = "ConspiracyTheoristStrategy" -> "conspiracy/generic"
    [] strategy = "SkepticalScientistStrategy" -> "scientist/generic"
    [] strategy = "PopulistStrategy" -> "populist/generic"

IsGenerateResponse == lastCall.op = "generate_response"

\* the branches whose keywords occur in the lowercased message of the call
Matching(call) ==
  {i \in DOMAIN Priority(call.strategy) :
     OccursAny(Lower(call.user_message.text), Priority(call.strategy)[i].words)}

\* C32: generate_response of each strategy returns a paragraph of the first
\* branch, in priority order, one of whose keywords occurs in the lowercased
\* user message of the context, and one of the generic templates, the one
\* chosen at random, exactly when no keyword of any branch occurs in it.
C32_FirstMatchingBranch ==
  IsGenerateResponse
    => LET hits == Matching(lastCall)
           first == CHOOSE i \in hits : \A j \in hits : i <= j
           name == lastCall.reply[1].w
       IN  /\ hits # {} => /\ name \in Priority(lastCall.strategy)[first].paragraphs
                           /\ Len(lastCall.reply) = 1
           /\ hits = {} => /\ name = GenericOf(lastCall.strategy)
                           /\ lastCall.reply[1].n = 40 + lastCall.choice
           /\ name = GenericOf(lastCall.strategy) <=> hits = {}

\* the populist strategy was given a message with a word of its food
\* category and a word of its economic topic and returned the economic
\* paragraph; the words of two branches occur in the message
C32_Witness ==
  /\ IsGenerateResponse
  /\ lastCall.strategy = "PopulistStrategy"
  /\ Matching(lastCall) = {1, 7}
  /\ lastCall.reply = <<Tok("populist/economic", 500)>>

\* C33: every conversation in the repository has a persona of
\* PersonalityType, a topic and a bot position, and an even number of
\* messages, at least 2 and at most twice its max_history.
C33_StoredConversationsComplete ==
  \A key \in DOMAIN conversations :
    LET conversation == heap[conversations[key]]
    IN  /\ conversation.bot_personality_type \in PersonalityType
        /\ conversation.topic # None
        /\ conversation.bot_position # None
        /\ Len(conversation.messages) % 2 = 0
        /\ Len(conversation.messages) >= 2
        /\ Len(conversation.messages) <= 2 * conversation.max_history

\* the store holds a conversation trimmed to its limit by overlapping
\* Continue calls, one of which failed at update
C33_Witness ==
  /\ \E key \in DOMAIN conversations :
       Len(heap[conversations[key]].messages) = 2 * DefaultMaxHistory
  /\ \E t \in Tasks :
       /\ task[t].op = "continue" /\ task[t].pc = "done"
       /\ task[t].cause = "RepositoryException"
       /\ task[t].overlap

\* C34 (as claimed): the response of every successful Continue call, other
\* calls on the same id being in flight or not, ends with the trimmed user
\* message of the call followed by the reply appended by the call.
C34_ResponseEndsWithOwnPair ==
  \A t \in Tasks :
    ContinueSucceeded(t)
      => LET n == Len(task[t].response)
             messages == heap[task[t].ref].messages
         IN  /\ n >= 2
             /\ task[t].response[n - 1] =
                  [role |-> USER, message |-> Strip(task[t].req.message)]
             /\ task[t].response[n].role = BOT
             /\ \E i \in 1..(Len(messages) - 1) :
                  /\ messages[i] = NewMessage(USER, task[t].req.message, task[t].seq)
                  /\ messages[i + 1].timestamp = task[t].seq
                  /\ task[t].response[n] = MessageToDict(messages[i + 1])

\* C35: repository.update takes the lock twice, to retrieve and to update;
\* when the conversation it found is no longer stored as it takes the lock
\* to update, the call writes nothing, so that the conversation stays
\* deleted, and unless the store operation fails otherwise it ends with
\* ConversationNotFoundException.
C35_UpdateAfterDelete ==
  [][\A t \in Tasks :
       LET key == IdStr(heap[task[t].ref].id)
       IN  (/\ task[t].op = REPOSITORY_UPDATE
            /\ task[t].pc = "critical"
            /\ task[t].repo_calls = <<"retrieve">>
            /\ task'[t].pc = "done"
            /\ key \notin DOMAIN conversations)
             => /\ task[t].existing # 0
                /\ conversations' = conversations
                /\ task'[t].raised \in {"ConversationNotFoundException",
                                         "RepositoryException"}
                /\ faults' = faults
                     => task'[t].raised = "ConversationNotFoundException"]_vars

\* a repository.update found its conversation, another task deleted it, and
\* the update ended with ConversationNotFoundException
C35_Witness ==
  \E t, u \in Tasks :
    /\ task[t].op = REPOSITORY_UPDATE /\ task[t].pc = "done"
    /\ task[t].repo_calls = <<"retrieve", "update">>
    /\ task[t].existing # 0
    /\ task[t].raised = "ConversationNotFoundException"
    /\ task[u].op = "delete" /\ task[u].pc = "done" /\ task[u].raised = None
    /\ task[u].ref = task[t].ref
    /\ task[u].seq > task[t].seq
    /\ IdStr(heap[task[t].ref].id) \notin DOMAIN conversations

\* a task is inside a store operation
InStore(t) == task[t].pc \in {"acquire", "critical"}

\* C36: at most one task is inside the critical section of a store
\* operation, and it is the one holding the lock; a task that has left the
\* block, normally or by an error, does not hold the lock; and every store
\* operation a task has started completes.
C36_OneLock ==
  /\ [](/\ Cardinality({t \in Tasks : task[t].pc = "critical"}) <= 1
        /\ \A t \in Tasks : task[t].pc = "critical" <=> lock = t)
  /\ \A t \in Tasks : InStore(t) ~> task[t].pc = "done"

\* after a store operation has raised inside its critical section, a task
\* is in a critical section while another waits for the lock
C36_Witness ==
  \E t, u \in Tasks :
    /\ faults >= 1
    /\ task[t].pc = "critical" /\ lock = t
    /\ task[u].pc = "acquire"

\* every stored message of the conversation, in order, as the API shows it
WholeHistory(c) == [i \in 1..Len(c.messages) |-> MessageToDict(c.messages[i])]

\* C37: get_messages_for_api of every conversation created by the use
\* cases returns its whole stored history in order, the limit being no
\* smaller than the stored length; the response of a successful call is
\* the whole history of its conversation, has at most 10 messages, and
\* passes the ChatResponse validator.
C37_ResponseIsWholeHistory ==
  [][/\ \A ref \in 1..Len(heap') :
          /\ Len(heap'[ref].messages) <= 2 * heap'[ref].max_history
          /\ GetMessagesForApi(heap'[ref]) = WholeHistory(heap'[ref])
     /\ \A t \in Tasks :
          (task'[t].pc = "done" /\ task[t].pc # "done" /\ task'[t].raised = None)
            => /\ task'[t].response = WholeHistory(heap'[task'[t].ref])
               /\ Len(task'[t].response) <= 10
               /\ ValidateMessagesCount(task'[t].response) = None]_vars

\* a Continue call found a conversation holding 10 messages and returned
\* 10 messages, the last two its own
C37_Witness ==
  \E t \in Tasks :
    /\ ContinueSucceeded(t)
    /\ Len(task[t].found) = 2 * DefaultMaxHistory
    /\ Len(task[t].response) = 2 * DefaultMaxHistory
    /\ task[t].response[2 * DefaultMaxHistory - 1].message = Strip(task[t].req.message)
    /\ ValidateMessagesCount(task[t].response) = None

====
